---------------------------- MODULE Spec2Model ----------------------------
(***************************************************************************)
(* A model of the tree transformations of the mediawiki parser.            *)
(*                                                                         *)
(* The syntax tree is a value: an Element is a record whose "type" field   *)
(* is the enum variant of src/src/ast.rs and whose other fields are the    *)
(* fields of that variant.  A Vec<Element> is a sequence, a String is a    *)
(* sequence of one-character strings, a Result is a record with an "ok"    *)
(* flag.  The transformation functions are operators computed the way the  *)
(* code computes them; a function argument (a TFuncInplace or a content    *)
(* handler) is passed as the name of the function and called through       *)
(* Transform / ContentFunc.  The settings argument (GeneralSettings, an    *)
(* empty struct) carries no data and is left out.                          *)
(*                                                                         *)
(* The state machine is a caller that owns a tree delivered by the parser  *)
(* and hands it to one public transformation after the other.              *)
(***************************************************************************)
EXTENDS Integers, Sequences, FiniteSets, TLC

VARIABLES
    pass,     \* name of the transformation called last ("parse" at first)
    input,    \* the tree that was handed to that call
    result    \* what the call returned: Ok(tree) or Err(TransformationError)

vars == <<pass, input, result>>

---------------------------------------------------------------------------
(* Strings                                                                 *)

\* Characters for which char::is_whitespace holds, among those the model uses.
WhitespaceChars == {" ", "\t", "\n"}

\* util::is_whitespace: no character of input is a non-whitespace character.
is_whitespace(input_str) ==
    \A i \in 1..Len(input_str) : input_str[i] \in WhitespaceChars

RECURSIVE trim_start(_)
\* str::trim_start: drop the leading whitespace characters.
trim_start(s) ==
    IF s # <<>> /\ Head(s) \in WhitespaceChars THEN trim_start(Tail(s)) ELSE s

RECURSIVE trim_end(_)
\* str::trim_end: drop the trailing whitespace characters.
trim_end(s) ==
    IF s # <<>> /\ s[Len(s)] \in WhitespaceChars
    THEN trim_end(SubSeq(s, 1, Len(s) - 1))
    ELSE s

\* str::trim, as used on an argument name by enumerate_anon_args.
trim(s) == trim_end(trim_start(s))

\* The decimal digit of d, 0 <= d <= 9.
digit_char(d) ==
    CASE d = 0 -> "0" [] d = 1 -> "1" [] d = 2 -> "2" [] d = 3 -> "3"
      [] d = 4 -> "4" [] d = 5 -> "5" [] d = 6 -> "6" [] d = 7 -> "7"
      [] d = 8 -> "8" [] d = 9 -> "9"

RECURSIVE to_string(_)
\* counter.to_string(): the decimal representation of a natural number.
to_string(n) ==
    IF n < 10 THEN <<digit_char(n)>>
    ELSE Append(to_string(n \div 10), digit_char(n % 10))

---------------------------------------------------------------------------
(* Positions and elements (src/src/ast.rs)                                 *)

Position(offset, line, col) == [offset |-> offset, line |-> line, col |-> col]

Span(start, end) == [start |-> start, end |-> end]

Document(position, content) ==
    [type |-> "Document", position |-> position, content |-> content]

Heading(position, depth, caption, content) ==
    [type |-> "Heading", position |-> position, depth |-> depth,
     caption |-> caption, content |-> content]

Text(position, text) ==
    [type |-> "Text", position |-> position, text |-> text]

Formatted(position, markup, content) ==
    [type |-> "Formatted", position |-> position, markup |-> markup,
     content |-> content]

Paragraph(position, content) ==
    [type |-> "Paragraph", position |-> position, content |-> content]

Template(position, name, content) ==
    [type |-> "Template", position |-> position, name |-> name,
     content |-> content]

TemplateArgument(position, name, value) ==
    [type |-> "TemplateArgument", position |-> position, name |-> name,
     value |-> value]

InternalReference(position, target, options, caption) ==
    [type |-> "InternalReference", position |-> position, target |-> target,
     options |-> options, caption |-> caption]

ListItem(position, depth, kind, content) ==
    [type |-> "ListItem", position |-> position, depth |-> depth,
     kind |-> kind, content |-> content]

List(position, content) ==
    [type |-> "List", position |-> position, content |-> content]

Comment(position, text) ==
    [type |-> "Comment", position |-> position, text |-> text]

Gallery(position, attributes, content) ==
    [type |-> "Gallery", position |-> position, attributes |-> attributes,
     content |-> content]

ExternalReference(position, target, caption) ==
    [type |-> "ExternalReference", position |-> position, target |-> target,
     caption |-> caption]

Table(position, attributes, caption, caption_attributes, rows) ==
    [type |-> "Table", position |-> position, attributes |-> attributes,
     caption |-> caption, caption_attributes |-> caption_attributes,
     rows |-> rows]

TableRow(position, attributes, cells) ==
    [type |-> "TableRow", position |-> position, attributes |-> attributes,
     cells |-> cells]

TableCell(position, header, attributes, content) ==
    [type |-> "TableCell", position |-> position, header |-> header,
     attributes |-> attributes, content |-> content]

HtmlTag(position, name, attributes, content) ==
    [type |-> "HtmlTag", position |-> position, name |-> name,
     attributes |-> attributes, content |-> content]

TagAttribute(position, key, value) ==
    [position |-> position, key |-> key, value |-> value]

\* Element::get_position
get_position(e) == e.position

---------------------------------------------------------------------------
(* Results and errors                                                      *)

\* error::TransformationError
TransformationError(cause, position, transformation_name, tree) ==
    [cause |-> cause, position |-> position,
     transformation_name |-> transformation_name, tree |-> tree]

\* TResult: Ok(Element) or Err(TransformationError).
Ok(tree) == [ok |-> TRUE, val |-> tree]
Err(e) == [ok |-> FALSE, err |-> e]

\* What a call of a content handler leaves behind: its TListResult and the
\* elements still held by the list it was given as &mut Vec<Element>
\* (root_content).  A drain that ran, to its end or up to an early return,
\* leaves the list empty.
ListOk(list, rest) == [ok |-> TRUE, val |-> list, root_content |-> rest]
ListErr(e, rest) == [ok |-> FALSE, err |-> e, root_content |-> rest]

---------------------------------------------------------------------------
(* The recursion engine (src/src/transformations.rs)                       *)

RECURSIVE Transform(_, _)
RECURSIVE ContentFunc(_, _, _)

\* Stands for usize::MAX: larger than every depth a tree of the model holds.
usize_MAX == 2147483647

\* apply_func_drain: apply func to every item of content, in order, and stop
\* at the first error; content is drained either way.
apply_func_drain(func, content) ==
    LET RECURSIVE drain(_, _), push(_, _, _)
        \* `for child in content.drain(..)`
        drain(i, res) ==
            IF i > Len(content) THEN ListOk(res, <<>>)
            ELSE push(Transform(func, content[i]), i, res)
        \* `result.push(func(child)?)`
        push(r, i, res) ==
            IF r.ok THEN drain(i + 1, Append(res, r.val))
            ELSE ListErr(r.err, <<>>)
    IN  drain(1, <<>>)

\* The child lists the match arm of recurse_inplace_template for root hands
\* to the content handler, in the order of the calls: <<field>> is the list
\* held by a field, <<"options", k>> the k-th option list of a reference.
child_lists(root) ==
    CASE root.type = "Document" -> << <<"content">> >>
      [] root.type = "Heading" -> << <<"content">>, <<"caption">> >>
      [] root.type = "Formatted" -> << <<"content">> >>
      [] root.type = "Paragraph" -> << <<"content">> >>
      [] root.type = "Template" -> << <<"content">> >>
      [] root.type = "TemplateArgument" -> << <<"value">> >>
      [] root.type = "InternalReference" ->
            << <<"target">>, <<"caption">> >>
                \o [k \in 1..Len(root.options) |-> <<"options", k>>]
      [] root.type = "ExternalReference" -> << <<"caption">> >>
      [] root.type = "ListItem" -> << <<"content">> >>
      [] root.type = "List" -> << <<"content">> >>
      [] root.type = "Table" -> << <<"caption">>, <<"rows">> >>
      [] root.type = "TableRow" -> << <<"cells">> >>
      [] root.type = "TableCell" -> << <<"content">> >>
      [] root.type = "HtmlTag" -> << <<"content">> >>
      [] OTHER -> <<>>

\* The child list of root that slot names.
list_at(root, slot) ==
    IF Len(slot) = 1 THEN root[slot[1]] ELSE root[slot[1]][slot[2]]

\* The statements that put the handler's result r into the node:
\* `list.append(&mut new_list)` for the list of a field, which still holds
\* what the handler did not drain, and `new_options.push(..)` followed by
\* `options.append(&mut new_options)` for an option list.
store_list(node, slot, r) ==
    IF Len(slot) = 1
    THEN [node EXCEPT ![slot[1]] = r.root_content \o r.val]
    ELSE [node EXCEPT ![slot[1]][slot[2]] = r.val]

\* The body of a match arm of recurse_inplace_template: one call
\* `content_func(func, list)?` per child list, then the results are stored.
recurse_lists(func, root, content_func, slots) ==
    LET RECURSIVE call(_, _), store(_, _, _)
        call(k, node) ==
            IF k > Len(slots) THEN Ok(node)
            ELSE store(ContentFunc(content_func, func, list_at(root, slots[k])),
                       k, node)
        store(r, k, node) ==
            IF r.ok THEN call(k + 1, store_list(node, slots[k], r))
            ELSE Err(r.err)
    IN  call(1, root)

\* recurse_inplace_template: hand the child lists of root to content_func.
recurse_inplace_template(func, root, content_func) ==
    recurse_lists(func, root, content_func, child_lists(root))

\* recurse_inplace (recurse_ast_inplace): the engine with the default handler.
recurse_inplace(func, root) ==
    recurse_inplace_template(func, root, "apply_func_drain")

---------------------------------------------------------------------------
(* The transformations (src/src/default_transformations.rs)                *)

\* A slip: a heading as deep as the reference heading is moved into it too.
is_deeper_or_equal_heading(depth, current_depth) == depth >= current_depth

\* `cur_heading.depth > current_depth`: the heading goes into the reference
\* heading.
is_deeper_heading(depth, current_depth) == depth > current_depth

\* A slip: every non-heading counts as following a heading.
heading_seen_always(current_depth) == current_depth <= usize_MAX

\* `current_depth < usize::MAX`: a reference heading has been picked.
heading_seen(current_depth) == current_depth < usize_MAX

\* A slip: the index of the reference heading is never moved on.
first_index(res) == 0

\* `current_heading_index = result.len()`: the zero-based index the new
\* reference heading gets in the result.
reference_index(res) == Len(res)

\* The closure move_deeper_headings of fold_headings_transformation.
move_deeper_headings(trans, root_content) ==
    LET RECURSIVE drain(_, _, _, _)
        drain(i, res, current_heading_index, current_depth) ==
            IF i > Len(root_content)
            THEN apply_func_drain(trans, res)
            ELSE
              LET child == root_content[i] IN
              IF child.type = "Heading"
              THEN IF is_deeper_heading(child.depth, current_depth)
                   THEN \* result.get_mut(current_heading_index), zero-based
                        IF /\ current_heading_index + 1 <= Len(res)
                           /\ res[current_heading_index + 1].type = "Heading"
                        THEN drain(i + 1,
                                   [res EXCEPT ![current_heading_index + 1].content
                                                   = Append(@, child)],
                                   current_heading_index, current_depth)
                        ELSE drain(i + 1, res, current_heading_index, current_depth)
                   ELSE drain(i + 1, Append(res, child), reference_index(res),
                              child.depth)
              ELSE IF heading_seen(current_depth)
                   THEN ListErr(TransformationError(
                                    "a non-heading element was found after a heading. This should not happen.",
                                    get_position(child),
                                    "fold_headings_transformation",
                                    child),
                                <<>>)
                   ELSE drain(i + 1, Append(res, child),
                              current_heading_index, current_depth)
    IN  drain(1, <<>>, 0, usize_MAX)

\* Moves flat headings into a hierarchical structure based on their depth.
fold_headings_transformation(root) ==
    recurse_inplace_template("fold_headings_transformation", root,
                             "move_deeper_headings")

\* The error move_deeper_items returns if the sublist to append to is missing.
build_found_error(origin) ==
    TransformationError("sublist was not instantiated properly.",
                        origin.position,
                        "fold_lists_transformation",
                        origin)

\* A slip: a child that is no ListItem is skipped instead of refused.
lowest_depth_lenient(root_content) ==
    LET RECURSIVE scan(_, _)
        scan(i, lowest_depth) ==
            IF i > Len(root_content) THEN [ok |-> TRUE, val |-> lowest_depth]
            ELSE LET child == root_content[i] IN
                 IF child.type = "ListItem" /\ child.depth < lowest_depth
                 THEN scan(i + 1, child.depth)
                 ELSE scan(i + 1, lowest_depth)
    IN  scan(1, usize_MAX)

\* The first loop of move_deeper_items: the least depth of the items of the
\* list, or the error for the first child that is not a ListItem.
lowest_depth_of(root_content) ==
    LET RECURSIVE scan(_, _)
        scan(i, lowest_depth) ==
            IF i > Len(root_content) THEN [ok |-> TRUE, val |-> lowest_depth]
            ELSE LET child == root_content[i] IN
                 IF child.type = "ListItem"
                 THEN scan(i + 1, IF child.depth < lowest_depth
                                  THEN child.depth ELSE lowest_depth)
                 ELSE Err(TransformationError(
                              "A list should not contain non-listitems.",
                              get_position(child),
                              "fold_lists_transformation",
                              child))
    IN  scan(1, usize_MAX)

\* A slip: no item is made for a sublist that has no item in front of it.
without_host(res, cur_item, lowest_depth) == res

\* A slip: the empty item gets the depth of the item it is made for.
with_deep_host(res, cur_item, lowest_depth) ==
    IF res = <<>>
    THEN <<ListItem(cur_item.position, cur_item.depth, cur_item.kind, <<>>)>>
    ELSE res

\* A slip: every new sublist gets a new item of its own to hold it.
with_new_host(res, cur_item, lowest_depth) ==
    Append(res, ListItem(cur_item.position, lowest_depth, cur_item.kind, <<>>))

\* `if result.is_empty() { result.push(ListItem { .. }) }`: a sublist that
\* has no item in front of it gets an empty item of the lowest depth.
with_host(res, cur_item, lowest_depth) ==
    IF res = <<>>
    THEN <<ListItem(cur_item.position, lowest_depth, cur_item.kind, <<>>)>>
    ELSE res

\* The closure move_deeper_items of fold_lists_transformation.
move_deeper_items(trans, root_content) ==
    LET lowest == lowest_depth_of(root_content)
        RECURSIVE drain(_, _, _)
        drain(i, res, create_sublist) ==
            IF i > Len(root_content)
            THEN apply_func_drain(trans, res)
            ELSE
              LET cur_item == root_content[i] IN
              IF cur_item.type # "ListItem"
              THEN drain(i + 1, Append(res, cur_item), create_sublist)
              ELSE IF cur_item.depth > lowest.val
              THEN
                LET res1 == IF create_sublist
                            THEN with_host(res, cur_item, lowest.val)
                            ELSE res
                    \* `if let Some(ListItem(last)) = result.last_mut()`
                    new_ok == ~create_sublist
                              \/ (res1 # <<>> /\ res1[Len(res1)].type = "ListItem")
                    res2 == IF create_sublist /\ new_ok
                            THEN [res1 EXCEPT ![Len(res1)].content =
                                     Append(@, List(cur_item.position, <<>>))]
                            ELSE res1
                    item_ok == res2 # <<>> /\ res2[Len(res2)].type = "ListItem"
                    list_ok == /\ item_ok
                               /\ res2[Len(res2)].content # <<>>
                               /\ LET c == res2[Len(res2)].content
                                  IN  c[Len(c)].type = "List"
                IN  IF ~new_ok \/ ~item_ok \/ ~list_ok
                    THEN ListErr(build_found_error(cur_item), <<>>)
                    ELSE drain(i + 1,
                               [res2 EXCEPT ![Len(res2)].content =
                                   [@ EXCEPT ![Len(@)].content = Append(@, cur_item)]],
                               FALSE)
              ELSE drain(i + 1, Append(res, cur_item), TRUE)
    IN  IF ~lowest.ok THEN ListErr(lowest.err, root_content)
        ELSE drain(1, <<>>, TRUE)

\* A slip: the handler for lists is used for the child lists of every node.
fold_lists_everywhere(root) ==
    recurse_inplace_template("fold_lists_transformation", root,
                             "move_deeper_items")

\* Moves list items of higher depth into separate sub-lists.
fold_lists_transformation(root) ==
    IF root.type = "List"
    THEN recurse_inplace_template("fold_lists_transformation", root,
                                  "move_deeper_items")
    ELSE recurse_inplace("fold_lists_transformation", root)

\* A slip: a child that is no text does not count.
no_text_with_words(content) ==
    \A i \in 1..Len(content) :
        content[i].type = "Text" => is_whitespace(content[i].text)

\* The flag is_only_whitespace after the loop over par.content: every child
\* is a text of white space.
is_only_whitespace(content) ==
    \A i \in 1..Len(content) :
        /\ content[i].type = "Text"
        /\ is_whitespace(content[i].text)

\* Transform whitespace-only paragraphs to empty paragraphs.
whitespace_paragraphs_to_empty(root) ==
    LET root1 == IF root.type = "Paragraph" /\ is_only_whitespace(root.content)
                 THEN [root EXCEPT !.content = <<>>]
                 ELSE root
    IN  recurse_inplace("whitespace_paragraphs_to_empty", root1)

\* A slip: a paragraph of whitespace counts as an empty one.
is_blank_paragraph(child) ==
    /\ child.type = "Paragraph"
    /\ \A i \in 1..Len(child.content) :
          /\ child.content[i].type = "Text"
          /\ is_whitespace(child.content[i].text)

\* `if let Element::Paragraph(ref mut par) = child` with
\* `par.content.is_empty()`.
is_empty_paragraph(child) ==
    child.type = "Paragraph" /\ child.content = <<>>

\* A slip: nothing is put between the two contents.
no_separator(last) == <<>>

\* "Add a space on line break": the text pushed to the content of the
\* paragraph last before the content of the next paragraph is appended.
separator(last) == <<Text(last.position, <<" ">>)>>

\* The function squash_empty_paragraphs of collapse_paragraphs.
squash_empty_paragraphs(trans, root_content) ==
    LET RECURSIVE drain(_, _, _)
        drain(i, res, last_empty) ==
            IF i > Len(root_content)
            THEN apply_func_drain(trans, res)
            ELSE
              LET child == root_content[i] IN
              IF is_empty_paragraph(child)
              THEN drain(i + 1, res, TRUE)
              ELSE IF /\ child.type = "Paragraph"
                      /\ ~last_empty
                      /\ res # <<>>
                      /\ res[Len(res)].type = "Paragraph"
              THEN LET last == res[Len(res)]
                       merged == [last EXCEPT
                                    !.content = @ \o separator(last)
                                                   \o child.content,
                                    !.position.end = child.position.end]
                   IN  drain(i + 1, [res EXCEPT ![Len(res)] = merged], last_empty)
              ELSE drain(i + 1, Append(res, child), FALSE)
    IN  drain(1, <<>>, FALSE)

\* Reduce consecutive paragraphs and absorb trailing text into one,
\* if not separated by a blank paragraph.
collapse_paragraphs(root) ==
    recurse_inplace_template("collapse_paragraphs", root,
                             "squash_empty_paragraphs")

\* A slip: the text of every node is appended as it is.
pushed_verbatim(text) == text

\* What squash_text pushes to the text of the node last for a text node that
\* follows it: `push(' ')` for whitespace, `push_str(&text.text)` otherwise.
pushed_text(text) == IF is_whitespace(text) THEN <<" ">> ELSE text

\* The function squash_text of collapse_consecutive_text.
squash_text(trans, root_content) ==
    LET RECURSIVE drain(_, _)
        drain(i, res) ==
            IF i > Len(root_content)
            THEN apply_func_drain(trans, res)
            ELSE
              LET child == root_content[i] IN
              IF /\ child.type = "Text"
                 /\ res # <<>>
                 /\ res[Len(res)].type = "Text"
              THEN LET last == res[Len(res)]
                       merged == [last EXCEPT
                                    !.text = @ \o pushed_text(child.text),
                                    !.position.end = child.position.end]
                   IN  drain(i + 1, [res EXCEPT ![Len(res)] = merged])
              ELSE drain(i + 1, Append(res, child))
    IN  drain(1, <<>>)

\* Collapse consecutive text tags into one, removing duplicate whitespace.
collapse_consecutive_text(root) ==
    recurse_inplace_template("collapse_consecutive_text", root, "squash_text")

\* A slip: the name is not trimmed.
is_unnamed(name) == name = <<>>

\* `arg.name.trim().is_empty()`
is_anonymous(name) == trim(name) = <<>>

\* The loop of enumerate_anon_args over the content of a Template.
number_arguments(content) ==
    LET RECURSIVE loop(_, _, _)
        loop(i, res, counter) ==
            IF i > Len(content) THEN res
            ELSE LET child == content[i] IN
                 IF child.type = "TemplateArgument" /\ is_anonymous(child.name)
                 THEN loop(i + 1,
                           Append(res, [child EXCEPT !.name = to_string(counter)]),
                           counter + 1)
                 ELSE loop(i + 1, Append(res, child), counter)
    IN  loop(1, <<>>, 1)

\* A slip: the templates below the root are not numbered.
enumerate_anon_args_of_root(root) ==
    Ok(IF root.type = "Template"
       THEN [root EXCEPT !.content = number_arguments(@)]
       ELSE root)

\* Enumerate anonymous template arguments as "1", "2", ...
enumerate_anon_args(root) ==
    LET root1 == IF root.type = "Template"
                 THEN [root EXCEPT !.content = number_arguments(@)]
                 ELSE root
    IN  recurse_inplace("enumerate_anon_args", root1)

\* A call `func(child)` of a transformation passed as &TFuncInplace.
Transform(func, root) ==
    CASE func = "fold_headings_transformation" -> fold_headings_transformation(root)
      [] func = "fold_lists_transformation" -> fold_lists_transformation(root)
      [] func = "whitespace_paragraphs_to_empty" -> whitespace_paragraphs_to_empty(root)
      [] func = "collapse_paragraphs" -> collapse_paragraphs(root)
      [] func = "collapse_consecutive_text" -> collapse_consecutive_text(root)
      [] func = "enumerate_anon_args" -> enumerate_anon_args(root)

\* A call `content_func(func, content)` of a content handler.
ContentFunc(content_func, func, content) ==
    CASE content_func = "apply_func_drain" -> apply_func_drain(func, content)
      [] content_func = "move_deeper_headings" -> move_deeper_headings(func, content)
      [] content_func = "move_deeper_items" -> move_deeper_items(func, content)
      [] content_func = "squash_empty_paragraphs" -> squash_empty_paragraphs(func, content)
      [] content_func = "squash_text" -> squash_text(func, content)

---------------------------------------------------------------------------
(* The trees the parser hands over                                         *)

\* Longest child list the model builds.
MaxLen == 4
\* Deepest heading and deepest list item the model builds.
MaxDepth == 3

\* All sequences over S of length at most n.
SeqsUpTo(S, n) == UNION {[1..k -> S] : k \in 0..n}

\* A position on the first line of the source, and a span between two offsets.
At(offset) == Position(offset, 1, offset + 1)
Between(a, b) == Span(At(a), At(b))

\* The span of the i-th child of a list whose owner starts at offset base.
ChildSpan(base, i) == Between(base + 10 * i, base + 10 * i + 9)

\* A paragraph of one word.
WordParagraph(span) == Paragraph(span, <<Text(span, <<"x">>)>>)

\* The i-th child of a raw document, for the code c of the child: 0 is a
\* paragraph, d > 0 is a heading of depth d.  A heading owns a caption and,
\* at the even places, a paragraph of its section.
RawSection(c, i) ==
    LET span == ChildSpan(0, i) IN
    IF c = 0 THEN WordParagraph(span)
    ELSE Heading(span, c,
                 <<Text(Between(10 * i + 1, 10 * i + 2), <<"h">>)>>,
                 IF i % 2 = 0
                 THEN <<WordParagraph(Between(10 * i + 3, 10 * i + 9))>>
                 ELSE <<>>)

\* The raw document whose children have the codes cs.
RawDocument(cs) ==
    Document(Between(0, 10 * Len(cs) + 10),
             [i \in 1..Len(cs) |-> RawSection(cs[i], i)])

\* The depths of the example of a heading run.
ExampleHeadingDepths == <<1, 2, 2, 1, 3>>

HeadingInputs ==
    {RawDocument(cs) : cs \in SeqsUpTo(0..MaxDepth, MaxLen)}
        \cup {RawDocument(ExampleHeadingDepths)}

\* A container of the given kind around the child list l: a paragraph, a
\* formatted run, the value of a template argument, the caption of a heading.
WrapperKinds == {"Paragraph", "Formatted", "TemplateArgument", "Caption"}

Wrapper(kind, l) ==
    LET span == Between(0, 10 * Len(l) + 10) IN
    CASE kind = "Paragraph" -> Paragraph(span, l)
      [] kind = "Formatted" -> Formatted(span, "Bold", l)
      [] kind = "TemplateArgument" -> TemplateArgument(span, <<"k">>, l)
      [] kind = "Caption" -> Heading(span, 1, l, <<>>)

\* The child list a Wrapper was built around.
WrappedList(e) ==
    CASE e.type = "TemplateArgument" -> e.value
      [] e.type = "Heading" -> e.caption
      [] OTHER -> e.content

\* Documents whose only child is a container around a run of sections.
WrappedInputs ==
    {Document(Between(0, 10 * Len(cs) + 10),
              <<Wrapper(kind, RawDocument(cs).content)>>) :
        kind \in WrapperKinds, cs \in SeqsUpTo(0..MaxDepth, MaxLen - 1)}

\* The i-th child of a raw list, for the code c of the child: 0 is a text,
\* d > 0 is a list item of depth d, ordered at the even places.
RawItem(c, i) ==
    LET span == ChildSpan(0, i) IN
    IF c = 0 THEN Text(span, <<"x">>)
    ELSE ListItem(span, c, IF i % 2 = 0 THEN "Ordered" ELSE "Unordered",
                  <<Text(Between(10 * i + 1, 10 * i + 9), <<"i">>)>>)

RawItems(cs) == [i \in 1..Len(cs) |-> RawItem(cs[i], i)]

\* The raw list whose children have the codes cs.
RawList(cs) == List(Between(0, 10 * Len(cs) + 10), RawItems(cs))

\* The depths of the example of a list.
ExampleItemDepths == <<1, 2, 2, 1>>

\* The codes of the children of the lists.
ListCodes == SeqsUpTo(0..MaxDepth, MaxLen)

\* The lists.
RawLists == {RawList(cs) : cs \in ListCodes}

\* The documents that hold one list.
DocumentsOfLists ==
    {Document(Between(0, 10 * Len(cs) + 10), <<RawList(cs)>>) : cs \in ListCodes}

\* The documents that hold the children of a list without a list around
\* them.
DocumentsOfItems ==
    {Document(Between(0, 10 * Len(cs) + 10), RawItems(cs)) : cs \in ListCodes}

\* The documents that hold a gallery around one list of two list items.
GalleriesOfLists ==
    {Document(Between(0, 30),
              <<Gallery(Between(0, 30), <<>>, <<RawList(cs)>>)>>) :
        cs \in [1..2 -> 1..MaxDepth]}

\* The kinds of child of a list of blocks: a paragraph without content, a
\* paragraph of white space, a paragraph of one word and a comment, and with
\* them a paragraph that holds two paragraphs.
FlatBlockKinds == {"empty", "blank", "word", "comment"}

BlockKinds == FlatBlockKinds \cup {"nest"}

RawBlock(kind, i) ==
    LET span == ChildSpan(0, i)
        inner == Between(10 * i + 1, 10 * i + 9)
    IN  CASE kind = "empty" -> Paragraph(span, <<>>)
          [] kind = "blank" -> Paragraph(span, <<Text(inner, <<" ", " ">>)>>)
          [] kind = "word" -> Paragraph(span, <<Text(inner, <<"x">>)>>)
          [] kind = "nest" ->
                Paragraph(span, <<WordParagraph(Between(10 * i + 1, 10 * i + 4)),
                                  WordParagraph(Between(10 * i + 5, 10 * i + 9))>>)
          [] kind = "comment" -> Comment(span, <<"c">>)

RawBlocks(cs) == [i \in 1..Len(cs) |-> RawBlock(cs[i], i)]

\* A document of blocks, and a document whose only child is a formatted run
\* of blocks.
ParagraphInputs ==
    {Document(Between(0, 10 * Len(cs) + 10), RawBlocks(cs)) :
        cs \in SeqsUpTo(FlatBlockKinds, MaxLen) \cup SeqsUpTo(BlockKinds, MaxLen - 1)}
    \cup
    {Document(Between(0, 10 * Len(cs) + 10),
              <<Formatted(Between(0, 10 * Len(cs) + 10), "Bold", RawBlocks(cs))>>) :
        cs \in SeqsUpTo(FlatBlockKinds, MaxLen - 1)}

\* The kinds of child of a list of inline nodes: the texts "a", "  ", "" and
\* "b", and a comment.
InlineKinds == {"a", "spaces", "none", "b", "comment"}

RawInline(kind, i) ==
    LET span == ChildSpan(0, i)
    IN  CASE kind = "a" -> Text(span, <<"a">>)
          [] kind = "spaces" -> Text(span, <<" ", " ">>)
          [] kind = "none" -> Text(span, <<>>)
          [] kind = "b" -> Text(span, <<"b">>)
          [] kind = "comment" -> Comment(span, <<"c">>)

RawInlines(cs) == [i \in 1..Len(cs) |-> RawInline(cs[i], i)]

\* The kinds of the example of a run of texts.
ExampleInlineKinds == <<"a", "spaces", "b">>

\* A paragraph that holds a paragraph of inline nodes, another of white
\* space inside a formatted run, and a text of white space.
DeepParagraph(cs) ==
    Paragraph(Between(0, 10 * Len(cs) + 30),
              <<Paragraph(Between(0, 10 * Len(cs) + 10), RawInlines(cs)),
                Formatted(Between(10 * Len(cs) + 11, 10 * Len(cs) + 19), "Italic",
                          <<Paragraph(Between(10 * Len(cs) + 12, 10 * Len(cs) + 18),
                                      <<Text(Between(10 * Len(cs) + 12,
                                                     10 * Len(cs) + 18), <<"\n">>)>>)>>),
                Text(Between(10 * Len(cs) + 20, 10 * Len(cs) + 29), <<" ">>)>>)

\* A document whose only child is a paragraph of inline nodes, a document
\* of inline nodes, and a document whose only child is a paragraph of
\* paragraphs.
TextInputs ==
    {Document(Between(0, 10 * Len(cs) + 10),
              <<Paragraph(Between(0, 10 * Len(cs) + 10), RawInlines(cs))>>) :
        cs \in SeqsUpTo(InlineKinds, MaxLen)}
    \cup
    {Document(Between(0, 10 * Len(cs) + 10), RawInlines(cs)) :
        cs \in SeqsUpTo(InlineKinds, MaxLen - 1)}
    \cup
    {Document(Between(0, 10 * Len(cs) + 30), <<DeepParagraph(cs)>>) :
        cs \in SeqsUpTo(InlineKinds, MaxLen - 2)}

\* A template, inside the value of an argument or the name of a template,
\* with the arguments of the example: anonymous, "foo", anonymous.
InnerTemplate(base) ==
    Template(Between(base, base + 8),
             <<Text(Between(base, base + 1), <<"m">>)>>,
             <<TemplateArgument(Between(base + 2, base + 3), <<>>,
                           <<Text(Between(base + 2, base + 3), <<"v">>)>>),
               TemplateArgument(Between(base + 4, base + 5), <<"f", "o", "o">>,
                           <<Text(Between(base + 4, base + 5), <<"v">>)>>),
               TemplateArgument(Between(base + 6, base + 7), <<>>,
                           <<Text(Between(base + 6, base + 7), <<"v">>)>>)>>)

\* The kinds of child of the content of a template: an argument without a
\* name, one named " ", one named "foo", a text, and an argument without a
\* name whose value is a template.
ArgumentKinds == {"anon", "blank", "named", "text", "nested"}

RawTemplateChild(kind, i) ==
    LET span == ChildSpan(0, i)
        value == <<Text(Between(10 * i + 1, 10 * i + 9), <<"v">>)>>
    IN  CASE kind = "anon" -> TemplateArgument(span, <<>>, value)
          [] kind = "blank" -> TemplateArgument(span, <<" ">>, value)
          [] kind = "named" -> TemplateArgument(span, <<"f", "o", "o">>, value)
          [] kind = "text" -> Text(span, <<"t">>)
          [] kind = "nested" -> TemplateArgument(span, <<>>, <<InnerTemplate(10 * i + 1)>>)

RawTemplateContent(cs) == [i \in 1..Len(cs) |-> RawTemplateChild(cs[i], i)]

\* The template with the given name list whose children have the kinds cs.
RawTemplate(name, cs) ==
    Template(Between(0, 10 * Len(cs) + 10), name, RawTemplateContent(cs))

\* The kinds of the example of a template.
ExampleArgumentKinds == <<"anon", "named", "anon">>

\* The number of arguments of a template with many anonymous arguments.
ManyArguments == 11

\* The documents that hold a gallery around two inline nodes or around a
\* paragraph of two inline nodes.
GalleriesOfTexts ==
    {Document(Between(0, 30),
              <<Gallery(Between(0, 30), <<>>, RawInlines(cs))>>) :
        cs \in [1..2 -> InlineKinds]}
    \cup
    {Document(Between(0, 30),
              <<Gallery(Between(0, 30), <<>>,
                        <<Paragraph(Between(0, 30), RawInlines(cs))>>)>>) :
        cs \in [1..2 -> InlineKinds]}

\* A template named by a text; a document whose only child is such a
\* template; a template with many arguments; a template named by a template;
\* and a document that holds the children of a template without a template
\* around them.
TemplateInputs ==
    LET plain == <<Text(Between(1, 2), <<"n">>)>>
        short == SeqsUpTo(ArgumentKinds, MaxLen - 1)
    IN  {RawTemplate(plain, cs) : cs \in SeqsUpTo(ArgumentKinds, MaxLen)}
        \cup {Document(Between(0, 10 * Len(cs) + 10), <<RawTemplate(plain, cs)>>) :
                  cs \in short}
        \cup {RawTemplate(plain, [i \in 1..ManyArguments |-> "anon"])}
        \cup {RawTemplate(<<InnerTemplate(1)>>, cs) : cs \in short}
        \cup {Document(Between(0, 10 * Len(cs) + 10), RawTemplateContent(cs)) :
                  cs \in short}

---------------------------------------------------------------------------
(* The caller                                                              *)

\* The parser has delivered a raw tree.
Parsed(trees) ==
    /\ pass = "parse"
    /\ input \in trees
    /\ result = Ok(input)

InitHeadings == Parsed(HeadingInputs \cup WrappedInputs)

InitLists ==
    \/ Parsed(RawLists)
    \/ Parsed(DocumentsOfLists)
    \/ Parsed(DocumentsOfItems)
    \/ Parsed(GalleriesOfLists)

InitParagraphs == Parsed(ParagraphInputs)

InitTexts == Parsed(TextInputs) \/ Parsed(GalleriesOfTexts)

InitTemplates == Parsed(TemplateInputs)

Init ==
    InitHeadings \/ InitLists \/ InitParagraphs \/ InitTexts \/ InitTemplates

\* The caller hands the tree it owns to a transformation, which consumes it:
\* after an error the caller owns no tree and can call nothing.

FoldHeadings ==
    /\ result.ok
    /\ pass' = "fold_headings_transformation"
    /\ input' = result.val
    /\ result' = fold_headings_transformation(result.val)

FoldLists ==
    /\ result.ok
    /\ pass' = "fold_lists_transformation"
    /\ input' = result.val
    /\ result' = fold_lists_transformation(result.val)

WhitespaceParagraphsToEmpty ==
    /\ result.ok
    /\ pass' = "whitespace_paragraphs_to_empty"
    /\ input' = result.val
    /\ result' = whitespace_paragraphs_to_empty(result.val)

CollapseParagraphs ==
    /\ result.ok
    /\ pass' = "collapse_paragraphs"
    /\ input' = result.val
    /\ result' = collapse_paragraphs(result.val)

CollapseConsecutiveText ==
    /\ result.ok
    /\ pass' = "collapse_consecutive_text"
    /\ input' = result.val
    /\ result' = collapse_consecutive_text(result.val)

EnumerateAnonArgs ==
    /\ result.ok
    /\ pass' = "enumerate_anon_args"
    /\ input' = result.val
    /\ result' = enumerate_anon_args(result.val)

Next ==
    \/ FoldHeadings
    \/ FoldLists
    \/ WhitespaceParagraphsToEmpty
    \/ CollapseParagraphs
    \/ CollapseConsecutiveText
    \/ EnumerateAnonArgs

Spec == Init /\ [][Next]_vars

SpecHeadings == InitHeadings /\ [][Next]_vars

SpecLists == InitLists /\ [][Next]_vars

SpecParagraphs == InitParagraphs /\ [][Next]_vars

SpecTexts == InitTexts /\ [][Next]_vars

SpecTemplates == InitTemplates /\ [][Next]_vars

---------------------------------------------------------------------------
(* Source lines and positions (src/src/util.rs, src/src/ast.rs)            *)

\* The characters of a source text: a letter, the line separator, and the
\* characters U+00E9 and U+20AC, which take more than one byte.
SourceChars == {"a", "\n", "U+00E9", "U+20AC"}

\* char::len_utf8: the number of bytes of the character in a str.
len_utf8(c) ==
    CASE c \in {"U+00E9", "U+00FC", "U+00F6"} -> 2
      [] c \in {"U+20AC", "U+2026", "U+2192"} -> 3
      [] OTHER -> 1

RECURSIVE str_len(_)
\* str::len: the length of a str in bytes.
str_len(s) == IF s = <<>> THEN 0 ELSE len_utf8(Head(s)) + str_len(Tail(s))

\* str::is_char_boundary: index is the byte offset of a character of s, or
\* the length of s.
is_char_boundary(s, index) ==
    \E k \in 0..Len(s) : str_len(SubSeq(s, 1, k)) = index

\* `&s[0..index]` for an index that is a character boundary.
str_prefix(s, index) ==
    SubSeq(s, 1, CHOOSE k \in 0..Len(s) : str_len(SubSeq(s, 1, k)) = index)

\* `source.split('\n')`: the pieces between the separators; a text without
\* a separator is one piece.
split(source) ==
    LET RECURSIVE pieces(_, _)
        pieces(i, piece) ==
            IF i > Len(source) THEN <<piece>>
            ELSE IF source[i] = "\n" THEN <<piece>> \o pieces(i + 1, <<>>)
            ELSE pieces(i + 1, Append(piece, source[i]))
    IN  pieces(1, <<>>)

\* ast::SourceLine
SourceLine(start, content, end) ==
    [start |-> start, content |-> content, end |-> end]

\* util::get_source_lines: the start and end positions of the source lines.
get_source_lines(source) ==
    LET lines == split(source)
        RECURSIVE loop(_, _, _)
        loop(k, pos, res) ==
            IF k > Len(lines) THEN res
            ELSE loop(k + 1, pos + str_len(lines[k]) + 1,
                      Append(res, SourceLine(pos, lines[k],
                                             pos + str_len(lines[k]) + 1)))
    IN  loop(1, 0, <<>>)

\* The thread panics: a str was sliced at a byte index that is no character
\* boundary, and the call returns nothing.
Panic == [panic |-> "byte index is not a char boundary"]

\* A slip: the column counts the bytes in front of the offset.
col_of_bytes(content, index) == index + 1

\* `sloc.content[0..offset - sloc.start].chars().count() + 1`
col_of(content, index) == Len(str_prefix(content, index)) + 1

\* Position::new
Position_new(offset, slocs) ==
    LET RECURSIVE iter(_)
        iter(i) ==
            IF i >= Len(slocs) THEN Position(offset, Len(slocs) + 1, 0)
            ELSE LET sloc == slocs[i + 1] IN
                 IF offset >= sloc.start /\ offset < sloc.end
                 THEN IF is_char_boundary(sloc.content, offset - sloc.start)
                      THEN Position(offset, i + 1,
                                    col_of(sloc.content, offset - sloc.start))
                      ELSE Panic
                 ELSE iter(i + 1)
    IN  iter(0)

\* Longest source text, in characters.
MaxText == 4

\* The text of the example of a position: two lines of two letters.
ExampleSource == <<"a", "b", "\n", "c", "d">>

\* The line index of a source text has been built.
InitPositions ==
    /\ pass = "get_source_lines"
    /\ input \in SeqsUpTo(SourceChars, MaxText) \cup {ExampleSource}
    /\ result = get_source_lines(input)

\* A position is made for an offset into the text, up to two bytes behind
\* its end.
PositionNew ==
    /\ pass = "get_source_lines"
    /\ \E offset \in 0..(str_len(input) + 2) :
          /\ input' = [source |-> input, slocs |-> result, offset |-> offset]
          /\ result' = Position_new(offset, result)
    /\ pass' = "Position::new"

SpecPositions == InitPositions /\ [][PositionNew]_vars

---------------------------------------------------------------------------
(* Equality of positions and spans (src/src/ast.rs)                        *)

any_position == Position(0, 0, 0)

\* A comparison that lets only the right-hand side be the wildcard.
position_eq_other_any(self, other) ==
    IF other.offset = 0 /\ other.line = 0 /\ other.col = 0
    THEN TRUE
    ELSE self.offset = other.offset /\ self.line = other.line
                                    /\ self.col = other.col

\* impl PartialEq for Position: comparing with the "any" position is true.
position_eq(self, other) ==
    IF \/ other.offset = 0 /\ other.line = 0 /\ other.col = 0
       \/ self.offset = 0 /\ self.line = 0 /\ self.col = 0
    THEN TRUE
    ELSE self.offset = other.offset /\ self.line = other.line
                                    /\ self.col = other.col

\* #[derive(PartialEq)] for Span: the fields are compared in turn.
span_eq(self, other) ==
    position_eq(self.start, other.start) /\ position_eq(self.end, other.end)

\* Largest offset, line and column of a compared position.
MaxField == 1

Positions ==
    {Position(o, l, c) : o \in 0..MaxField, l \in 0..MaxField, c \in 0..MaxField}

Spans == {Span(start, end) : start \in Positions, end \in Positions}

\* The caller holds a span.
InitSpans ==
    /\ pass = "Span"
    /\ input \in Spans
    /\ result = input

\* The start of the span is compared with a position.
PositionEq ==
    /\ pass = "Span"
    /\ \E other \in Positions :
          /\ input' = [self |-> input.start, other |-> other]
          /\ result' = position_eq(input.start, other)
    /\ pass' = "Position::eq"

\* The span is compared with a span.
SpanEq ==
    /\ pass = "Span"
    /\ \E other \in Spans :
          /\ input' = [self |-> input, other |-> other]
          /\ result' = span_eq(input, other)
    /\ pass' = "Span::eq"

NextSpans == PositionEq \/ SpanEq

SpecSpans == InitSpans /\ [][NextSpans]_vars

---------------------------------------------------------------------------
(* The recursion engine, call by call (src/src/transformations.rs)         *)

\* One call of the engine on a node is followed step by step: the caller's
\* arguments are `input` (the family, func, root and, for the cloning family,
\* path), the local variables of the engine and of the content handler it
\* has called are `result`, which also keeps a log of the lists handed to
\* the handler and of the calls of func.

\* The child lists the match arm of recurse_clone_template for root hands to
\* the content handler, in the order of the calls.  Text and Comment are
\* cloned as they are; the name of a Template is cloned, too.
child_lists_clone(root) ==
    CASE root.type = "Document" -> << <<"content">> >>
      [] root.type = "Heading" -> << <<"caption">>, <<"content">> >>
      [] root.type = "Formatted" -> << <<"content">> >>
      [] root.type = "Paragraph" -> << <<"content">> >>
      [] root.type = "Template" -> << <<"content">> >>
      [] root.type = "TemplateArgument" -> << <<"value">> >>
      [] root.type = "InternalReference" ->
            [k \in 1..Len(root.options) |-> <<"options", k>>]
                \o << <<"target">>, <<"caption">> >>
      [] root.type = "ExternalReference" -> << <<"caption">> >>
      [] root.type = "ListItem" -> << <<"content">> >>
      [] root.type = "List" -> << <<"content">> >>
      [] root.type = "Table" -> << <<"caption">>, <<"rows">> >>
      [] root.type = "TableRow" -> << <<"cells">> >>
      [] root.type = "TableCell" -> << <<"content">> >>
      [] root.type = "HtmlTag" -> << <<"content">> >>
      [] OTHER -> <<>>

\* The element a match arm of recurse_clone_template builds: the fields of
\* root are cloned one by one, new[slot] is what the handler returned for the
\* child list slot.
clone_element(root, new) ==
    CASE root.type = "Document" ->
            Document(root.position, new[<<"content">>])
      [] root.type = "Heading" ->
            Heading(root.position, root.depth,
                    new[<<"caption">>], new[<<"content">>])
      [] root.type = "Text" -> root
      [] root.type = "Formatted" ->
            Formatted(root.position, root.markup, new[<<"content">>])
      [] root.type = "Paragraph" ->
            Paragraph(root.position, new[<<"content">>])
      [] root.type = "Template" ->
            Template(root.position, root.name, new[<<"content">>])
      [] root.type = "TemplateArgument" ->
            TemplateArgument(root.position, root.name, new[<<"value">>])
      [] root.type = "InternalReference" ->
            InternalReference(root.position, new[<<"target">>],
                [k \in 1..Len(root.options) |-> new[<<"options", k>>]],
                new[<<"caption">>])
      [] root.type = "ExternalReference" ->
            ExternalReference(root.position, root.target, new[<<"caption">>])
      [] root.type = "ListItem" ->
            ListItem(root.position, root.depth, root.kind, new[<<"content">>])
      [] root.type = "List" ->
            List(root.position, new[<<"content">>])
      [] root.type = "Table" ->
            Table(root.position, root.attributes, new[<<"caption">>],
                  root.caption_attributes, new[<<"rows">>])
      [] root.type = "TableRow" ->
            TableRow(root.position, root.attributes, new[<<"cells">>])
      [] root.type = "TableCell" ->
            TableCell(root.position, root.header, root.attributes,
                      new[<<"content">>])
      [] root.type = "Comment" -> root
      [] root.type = "HtmlTag" ->
            HtmlTag(root.position, root.name, root.attributes,
                    new[<<"content">>])

\* The lists the handler returned, by the child list they were returned for.
returned_lists(slots, lists) ==
    [slot \in {slots[k] : k \in 1..Len(lists)} |->
        lists[CHOOSE k \in 1..Len(lists) : slots[k] = slot]]

\* The statements at the end of a match arm of recurse_inplace_template:
\* every drained list is given the list the handler returned for it.
RECURSIVE append_lists(_, _, _, _)
append_lists(node, slots, lists, k) ==
    IF k > Len(slots) THEN node
    ELSE append_lists(store_list(node, slots[k], ListOk(lists[k], <<>>)),
                      slots, lists, k + 1)

\* A transformation function handed to the engine: it refuses the element
\* that starts at the offset fail_at and puts a mark on every other element.
func_apply(func, child) ==
    IF child.position.start.offset = func.fail_at
    THEN Err(TransformationError("refused", child.position, "func", child))
    ELSE Ok([child EXCEPT !.text = @ \o <<"!">>])

\* An engine that goes on after an error of the handler.
failed_never(locals) == FALSE

\* The `?` behind a call of the handler: an error ends the engine.
failed(locals) == locals.err # <<>>

\* Longest child list of the node the engine is called on.
MaxChildren == 2
\* Largest number of option lists of an internal reference.
MaxOptions == 1

\* The number of child lists a node of a kind can have.
ListCounts(kind) ==
    CASE kind \in {"Text", "Comment"} -> {0}
      [] kind \in {"Heading", "Template", "Table"} -> {2}
      [] kind = "InternalReference" -> 2..(2 + MaxOptions)
      [] OTHER -> {1}

\* The n elements of a child list of the node, the first one being the
\* element number from + 1 of the node.
EngineChildren(from, n) ==
    [i \in 1..n |-> Text(Between(from + i, from + i), <<"x">>)]

SomeAttributes == <<TagAttribute(Between(0, 0), <<"k">>, <<"v">>)>>

\* The node of a kind whose child lists, in the order of their declaration
\* in ast.rs, have the lengths lens.
EngineNode(kind, lens) ==
    LET RECURSIVE before(_)
        before(j) == IF j = 1 THEN 0 ELSE before(j - 1) + lens[j - 1]
        L(j) == EngineChildren(before(j), lens[j])
        position == Between(0, 0)
    IN  CASE kind = "Document" -> Document(position, L(1))
          [] kind = "Heading" -> Heading(position, 2, L(1), L(2))
          [] kind = "Text" -> Text(position, <<"x">>)
          [] kind = "Formatted" -> Formatted(position, "Italic", L(1))
          [] kind = "Paragraph" -> Paragraph(position, L(1))
          [] kind = "Template" -> Template(position, L(1), L(2))
          [] kind = "TemplateArgument" ->
                TemplateArgument(position, <<"n">>, L(1))
          [] kind = "InternalReference" ->
                InternalReference(position, L(1),
                    [k \in 1..(Len(lens) - 2) |-> L(1 + k)], L(Len(lens)))
          [] kind = "ExternalReference" ->
                ExternalReference(position, <<"u">>, L(1))
          [] kind = "ListItem" -> ListItem(position, 1, "Unordered", L(1))
          [] kind = "List" -> List(position, L(1))
          [] kind = "Table" ->
                Table(position, SomeAttributes, L(1), SomeAttributes, L(2))
          [] kind = "TableRow" -> TableRow(position, SomeAttributes, L(1))
          [] kind = "TableCell" ->
                TableCell(position, TRUE, SomeAttributes, L(1))
          [] kind = "Comment" -> Comment(position, <<"x">>)
          [] kind = "HtmlTag" ->
                HtmlTag(position, <<"t">>, SomeAttributes, L(1))
          [] kind = "Gallery" -> Gallery(position, SomeAttributes, L(1))

\* The variants recurse_clone_template has a match arm for, and the variants
\* of ast.rs a tree handed to recurse_inplace_template can hold.
CloneKinds ==
    {"Document", "Heading", "Text", "Formatted", "Paragraph", "Template",
     "TemplateArgument", "InternalReference", "ExternalReference",
     "ListItem", "List", "Table", "TableRow", "TableCell", "Comment",
     "HtmlTag"}

InplaceKinds == CloneKinds \cup {"Gallery"}

EngineNodes(kinds) ==
    UNION {UNION {{EngineNode(kind, lens) : lens \in [1..n -> 0..MaxChildren]} :
                  n \in ListCounts(kind)} :
           kind \in kinds}

\* The functions handed to the engine with a node: fail_at 0 refuses nothing.
EngineFuncs == [fail_at : 0..(MaxChildren * (2 + MaxOptions))]

\* The ancestor paths recurse_clone is called with: none, and the document
\* that holds the node.
EnginePaths(root) == {<<>>, <<Document(Between(0, 0), <<root>>)>>}

\* The local variables of the engine before its first statement.
EngineLocals ==
    [path |-> <<>>, k |-> 0, i |-> 0, res |-> <<>>, lists |-> <<>>,
     err |-> <<>>, returned |-> <<>>, handed |-> <<>>, calls |-> <<>>]

\* recurse_ast_inplace or recurse_clone has been called.
InitEngine ==
    \/ /\ pass = "recurse_inplace_template"
       /\ input \in [family : {"inplace"}, func : EngineFuncs,
                     root : EngineNodes(InplaceKinds)]
       /\ result = EngineLocals
    \/ /\ pass = "recurse_clone"
       /\ \E root \in EngineNodes(CloneKinds) :
             input \in [family : {"clone"}, func : EngineFuncs,
                        root : {root}, path : EnginePaths(root)]
       /\ result = EngineLocals

\* `content_func(func, list)`: the next child list is handed to the handler.
RecurseInplaceTemplateCall ==
    /\ pass = "recurse_inplace_template"
    /\ ~failed(result)
    /\ result.k < Len(child_lists(input.root))
    /\ result' = [result EXCEPT !.k = @ + 1, !.i = 1, !.res = <<>>,
                     !.handed = Append(@, child_lists(input.root)[result.k + 1])]
    /\ pass' = "apply_func_drain"
    /\ UNCHANGED input

\* `result.push(func(child)?)` in apply_func_drain.
ApplyFuncDrainCall ==
    /\ pass = "apply_func_drain"
    /\ LET content == list_at(input.root, child_lists(input.root)[result.k])
       IN  /\ result.i <= Len(content)
           /\ LET child == content[result.i]
                  r == func_apply(input.func, child)
                  called == Append(result.calls, [child |-> child])
              IN  IF r.ok
                  THEN /\ result' = [result EXCEPT !.calls = called,
                                        !.res = Append(@, r.val), !.i = @ + 1]
                       /\ pass' = "apply_func_drain"
                  ELSE /\ result' = [result EXCEPT !.calls = called,
                                        !.err = <<r.err>>]
                       /\ pass' = "recurse_inplace_template"
    /\ UNCHANGED input

\* `Ok(result)` in apply_func_drain.
ApplyFuncDrainReturn ==
    /\ pass = "apply_func_drain"
    /\ result.i > Len(list_at(input.root, child_lists(input.root)[result.k]))
    /\ result' = [result EXCEPT !.lists = Append(@, result.res)]
    /\ pass' = "recurse_inplace_template"
    /\ UNCHANGED input

\* The `?` that returns the handler's error, or the end of the match arm:
\* the lists are appended and `Ok(root)` is returned.
RecurseInplaceTemplateReturn ==
    /\ pass = "recurse_inplace_template"
    /\ failed(result) \/ result.k = Len(child_lists(input.root))
    /\ result' = [result EXCEPT !.returned =
                     <<IF result.err # <<>> THEN Err(result.err[1])
                       ELSE Ok(append_lists(input.root, child_lists(input.root),
                                            result.lists, 1))>>]
    /\ pass' = "return"
    /\ UNCHANGED input

\* `let mut path = path.clone(); path.push(root);`
RecurseCloneTemplatePush ==
    /\ pass = "recurse_clone"
    /\ result' = [result EXCEPT !.path = Append(input.path, input.root)]
    /\ pass' = "recurse_clone_template"
    /\ UNCHANGED input

\* `content_func(func, list, &path)`: the next child list is handed to the
\* handler.
RecurseCloneTemplateCall ==
    /\ pass = "recurse_clone_template"
    /\ ~failed(result)
    /\ result.k < Len(child_lists_clone(input.root))
    /\ result' = [result EXCEPT !.k = @ + 1, !.i = 1, !.res = <<>>,
                     !.handed = Append(@, child_lists_clone(input.root)[result.k + 1])]
    /\ pass' = "apply_func_clone"
    /\ UNCHANGED input

\* `result.push(func(child, path)?)` in apply_func_clone.
ApplyFuncCloneCall ==
    /\ pass = "apply_func_clone"
    /\ LET content == list_at(input.root,
                              child_lists_clone(input.root)[result.k])
       IN  /\ result.i <= Len(content)
           /\ LET child == content[result.i]
                  r == func_apply(input.func, child)
                  called == Append(result.calls,
                                   [child |-> child, path |-> result.path])
              IN  IF r.ok
                  THEN /\ result' = [result EXCEPT !.calls = called,
                                        !.res = Append(@, r.val), !.i = @ + 1]
                       /\ pass' = "apply_func_clone"
                  ELSE /\ result' = [result EXCEPT !.calls = called,
                                        !.err = <<r.err>>]
                       /\ pass' = "recurse_clone_template"
    /\ UNCHANGED input

\* `Ok(result)` in apply_func_clone.
ApplyFuncCloneReturn ==
    /\ pass = "apply_func_clone"
    /\ result.i > Len(list_at(input.root,
                              child_lists_clone(input.root)[result.k]))
    /\ result' = [result EXCEPT !.lists = Append(@, result.res)]
    /\ pass' = "recurse_clone_template"
    /\ UNCHANGED input

\* The `?` that returns the handler's error, or the end of the match arm:
\* the new element is built, `path.pop()`, `Ok(new)`.
RecurseCloneTemplateReturn ==
    /\ pass = "recurse_clone_template"
    /\ failed(result) \/ result.k = Len(child_lists_clone(input.root))
    /\ result' =
          IF result.err # <<>>
          THEN [result EXCEPT !.returned = <<Err(result.err[1])>>]
          ELSE [result EXCEPT
                   !.returned = <<Ok(clone_element(input.root,
                                     returned_lists(child_lists_clone(input.root),
                                                    result.lists)))>>,
                   !.path = SubSeq(@, 1, Len(@) - 1)]
    /\ pass' = "return"
    /\ UNCHANGED input

NextEngine ==
    \/ RecurseInplaceTemplateCall
    \/ ApplyFuncDrainCall
    \/ ApplyFuncDrainReturn
    \/ RecurseInplaceTemplateReturn
    \/ RecurseCloneTemplatePush
    \/ RecurseCloneTemplateCall
    \/ ApplyFuncCloneCall
    \/ ApplyFuncCloneReturn
    \/ RecurseCloneTemplateReturn

SpecEngine == InitEngine /\ [][NextEngine]_vars

---------------------------------------------------------------------------
(* The traversal (src/src/traversion.rs)                                   *)

\* A Traversion is an implementation t of the hooks and a state self the
\* hooks can change: the path and, to follow what happens, the calls of the
\* hooks.  The implementations looked at keep the path as a stack, let work
\* return false for the nodes of t.stop_nodes and work_vec for the lists of
\* t.stop_lists; with both sets empty they are the default hooks.  The
\* settings and the writer are handed through and left out.

\* path_push of a Traversion that keeps its path as a stack.
path_push(self, root) == [self EXCEPT !.path = Append(@, root)]

\* path_pop of a Traversion that keeps its path as a stack (Vec::pop).
path_pop(self) ==
    IF self.path = <<>> THEN self
    ELSE [self EXCEPT !.path = SubSeq(@, 1, Len(@) - 1)]

\* A hook that never ends the recursion.
work_always(t, root) == TRUE

\* The hook work: false ends the handling of root.
work(t, root) == root \notin t.stop_nodes

\* The hook work_vec: false ends the handling of the list.
work_vec(t, content) == content \notin t.stop_lists

\* The child lists the match arm of run for root hands to run_vec, in the
\* order of the calls.
run_lists(root) ==
    CASE root.type = "Document" -> << <<"content">> >>
      [] root.type = "Heading" -> << <<"caption">>, <<"content">> >>
      [] root.type = "Formatted" -> << <<"content">> >>
      [] root.type = "Paragraph" -> << <<"content">> >>
      [] root.type = "Template" -> << <<"content">>, <<"name">> >>
      [] root.type = "TemplateArgument" -> << <<"value">> >>
      [] root.type = "InternalReference" ->
            << <<"target">> >>
                \o [k \in 1..Len(root.options) |-> <<"options", k>>]
                \o << <<"caption">> >>
      [] root.type = "ExternalReference" -> << <<"caption">> >>
      [] root.type = "ListItem" -> << <<"content">> >>
      [] root.type = "List" -> << <<"content">> >>
      [] root.type = "Table" -> << <<"caption">>, <<"rows">> >>
      [] root.type = "TableRow" -> << <<"cells">> >>
      [] root.type = "TableCell" -> << <<"content">> >>
      [] root.type = "HtmlTag" -> << <<"content">> >>
      [] root.type = "Gallery" -> << <<"content">> >>
      [] OTHER -> <<>>

\* The call of a hook, as the traversal state keeps it.
HookCall(hook, root, path) == [hook |-> hook, root |-> root, path |-> path]

RECURSIVE run(_, _, _)
RECURSIVE run_vec(_, _, _)

\* Traversion::run: push, work, the child lists, pop.  When work returns
\* false, run returns at once.
run(t, root, self) ==
    LET pushed == path_push(self, root)
        worked == [pushed EXCEPT
                      !.calls = Append(@, HookCall("work", root, pushed.path))]
        lists == run_lists(root)
        RECURSIVE each(_, _)
        each(k, s) ==
            IF k > Len(lists) THEN path_pop(s)
            ELSE each(k + 1, run_vec(t, list_at(root, lists[k]), s))
    IN  IF ~work(t, root) THEN worked ELSE each(1, worked)

\* Traversion::run_vec: work_vec, then run for every element.
run_vec(t, content, self) ==
    LET called == [self EXCEPT
                      !.calls = Append(@, HookCall("work_vec", content, self.path))]
        RECURSIVE each(_, _)
        each(i, s) ==
            IF i > Len(content) THEN s
            ELSE each(i + 1, run(t, content[i], s))
    IN  IF ~work_vec(t, content) THEN called ELSE each(1, called)

\* The number of elements in the child lists in front of the j-th one.
RECURSIVE ChildrenBefore(_, _)
ChildrenBefore(lens, j) ==
    IF j = 1 THEN 0 ELSE ChildrenBefore(lens, j - 1) + lens[j - 1]

\* The child lists of EngineNode(kind, lens), in the order of declaration.
EngineLists(lens) ==
    [j \in 1..Len(lens) |-> EngineChildren(ChildrenBefore(lens, j), lens[j])]

\* The node that follows the node looked at in the document.
LaterSibling == Comment(Between(0, 0), <<"s">>)

\* A document that holds a node of a kind and a later sibling of it.
TraversalTree(kind, lens) ==
    Document(Between(0, 0), <<EngineNode(kind, lens), LaterSibling>>)

\* The nodes and the child lists of such a document.
TraversalNodes(kind, lens) ==
    {TraversalTree(kind, lens), EngineNode(kind, lens), LaterSibling}
        \cup {EngineChildren(0, ChildrenBefore(lens, Len(lens) + 1))[i] :
                 i \in 1..ChildrenBefore(lens, Len(lens) + 1)}

TraversalLists(kind, lens) ==
    {TraversalTree(kind, lens).content}
        \cup {EngineLists(lens)[j] : j \in 1..Len(lens)}

\* The empty set and the sets of one element of S.
AtMostOne(S) == {{}} \cup {{x} : x \in S}

\* A Traversion has been built with some path, and a tree to run it on.
InitTraversal ==
    /\ pass = "traversion"
    /\ \E kind \in InplaceKinds :
          \E n \in ListCounts(kind) :
             \E lens \in [1..n -> 0..MaxChildren] :
                input \in [root : {TraversalTree(kind, lens)},
                           path : {<<>>, <<LaterSibling>>},
                           stop_nodes : AtMostOne(TraversalNodes(kind, lens)),
                           stop_lists : AtMostOne(TraversalLists(kind, lens))]
    /\ result = [path |-> input.path, calls |-> <<>>]

\* `traversion.run(root, settings, out)` has returned Ok.
Run ==
    /\ pass = "traversion"
    /\ result' = run(input, input.root, result)
    /\ pass' = "run"
    /\ UNCHANGED input

SpecTraversal == InitTraversal /\ [][Run]_vars

---------------------------------------------------------------------------
(* Parse errors (src/src/error.rs)                                         *)

\* The number of lines to display as error context.
ERROR_CONTEXT_LINES == 5

\* A slip: the context starts one line late.
context_start_late(line) ==
    IF line < ERROR_CONTEXT_LINES THEN 0 ELSE line - ERROR_CONTEXT_LINES + 1

\* `let start = ..`: the zero-based index of the first line of the context.
context_start_of(line) ==
    IF line < ERROR_CONTEXT_LINES THEN 0 ELSE line - ERROR_CONTEXT_LINES

\* `let end = ..`: the zero-based index of the last line of the context.
context_end_of(line, line_count) ==
    IF line + ERROR_CONTEXT_LINES >= line_count
    THEN line_count - 1
    ELSE line + ERROR_CONTEXT_LINES

\* ParseError::from: the error of the grammar with its source context.
ParseError_from(err, source) ==
    LET source_lines == get_source_lines(source)
        line_count == Len(source_lines)
        line == (IF err.line <= line_count THEN err.line ELSE line_count) - 1
        start == context_start_of(line)
        end == context_end_of(line, line_count)
        \* `for token in &err.expected { token_str.push(..) }`
        token_str == [k \in 1..Len(err.expected) |-> err.expected[k]]
        \* `for sloc in source_lines[start..=end].iter()`
        slice == SubSeq(source_lines, start + 1, end + 1)
        context == [k \in 1..Len(slice) |-> slice[k].content]
    IN  [position |-> Position_new(err.offset, source_lines),
         expected |-> token_str,
         context |-> context,
         context_start |-> start,
         context_end |-> end]

\* Most lines of a source text that is refused.
MaxLines == 12
\* Most tokens the grammar expected.
MaxExpected == 2

\* A source text of n lines, the i-th of which holds i - 1 letters.
RECURSIVE SourceOfLines(_)
SourceOfLines(n) ==
    IF n = 1 THEN <<>>
    ELSE SourceOfLines(n - 1) \o <<"\n">> \o [j \in 1..(n - 1) |-> "a"]

\* The errors the grammar can return for a source text: the line is the
\* 1-based line of the offset, or a line behind the text for an offset behind
\* the text; the expected tokens are listed in the order of their iteration.
GrammarErrors(source) ==
    LET source_lines == get_source_lines(source)
        n == Len(source_lines)
    IN  {[line |-> l,
          offset |-> IF l <= n THEN source_lines[l].start ELSE source_lines[n].end,
          expected |-> e] :
            l \in 1..(n + 1), e \in SeqsUpTo({"[", "{{"}, MaxExpected)}

\* The grammar has refused a source text.
InitParseErrors ==
    /\ pass = "grammar::Document"
    /\ input \in {SourceOfLines(n) : n \in 1..MaxLines}
    /\ result \in GrammarErrors(input)

\* `Err(e) => Err(ParseError::from(&e, input))`
ParseErrorFrom ==
    /\ pass = "grammar::Document"
    /\ input' = [err |-> result, input |-> input]
    /\ result' = ParseError_from(result, input)
    /\ pass' = "ParseError::from"

SpecParseErrors == InitParseErrors /\ [][ParseErrorFrom]_vars

---------------------------------------------------------------------------
(* Shortened context lines (src/src/util.rs)                               *)

\* `const TERMINAL_WIDTH: usize = 80;`
TERMINAL_WIDTH == 80

\* `let filler = " .. ";`
filler == <<" ", ".", ".", " ">>

\* A call that returned the string s.
Returned(s) == [returned |-> TRUE, val |-> s]

\* The panic of a subtraction below zero in a build with overflow checks.
SubtractOverflow ==
    [returned |-> FALSE, panic |-> "attempt to subtract with overflow"]

\* The builds: with overflow checks (debug) and without (release).
Builds == {"debug", "release"}

\* `a - b` on usize: a panic with overflow checks, the wrapped value
\* without.
usize_sub(a, b, build) ==
    IF a >= b THEN [ok |-> TRUE, val |-> a - b]
    ELSE IF build = "debug" THEN [ok |-> FALSE]
    ELSE [ok |-> TRUE, val |-> a - b + usize_MAX + 1]

\* `input.len() < TERMINAL_WIDTH`: the length in bytes.
fits(input_str) == str_len(input_str) < TERMINAL_WIDTH

\* Shorten a string to fit into TERMINAL_WIDTH.
shorten_str(input_str, build) ==
    LET input_len == Len(input_str)
        half_text_size == (TERMINAL_WIDTH - Len(filler)) \div 2
        tail_from == usize_sub(input_len, half_text_size, build)
        \* What the body of the loop pushes for the character c at
        \* char_count, which counts from 0.
        pushed(char_count) ==
            LET c == input_str[char_count + 1] IN
            (IF char_count < half_text_size THEN <<c>> ELSE <<>>)
                \o (IF char_count = half_text_size THEN filler ELSE <<>>)
                \o (IF char_count >= tail_from.val THEN <<c>> ELSE <<>>)
        RECURSIVE loop(_, _)
        \* The pushes for the characters lo..hi - 1, in order.
        loop(lo, hi) ==
            IF lo >= hi THEN <<>>
            ELSE IF lo + 1 = hi THEN pushed(lo)
            ELSE LET mid == (lo + hi) \div 2
                 IN  loop(lo, mid) \o loop(mid, hi)
    IN  IF fits(input_str) THEN Returned(input_str)
        ELSE IF ~tail_from.ok THEN SubtractOverflow
        ELSE Returned(loop(0, input_len))

\* Most characters of a line.
MaxLineChars == 90

\* The i-th character of a line of characters of w bytes: neighbours differ.
Letter(w, i) ==
    CASE w = 1 -> <<"a", "b", "c">>[(i % 3) + 1]
      [] w = 2 -> <<"U+00E9", "U+00FC", "U+00F6">>[(i % 3) + 1]
      [] OTHER -> <<"U+20AC", "U+2026", "U+2192">>[(i % 3) + 1]

\* The line of n characters whose first m characters have w bytes and
\* whose other characters have one.
Line(n, w, m) == [i \in 1..n |-> IF i <= m THEN Letter(w, i) ELSE Letter(1, i)]

\* A line of the context of a parse error, not the failing one.
InitShorten ==
    /\ pass = "fmt"
    /\ \E n \in 0..MaxLineChars, w \in 1..3 :
          input \in {Line(n, w, 0), Line(n, w, 1), Line(n, w, n)}
    /\ result = Returned(<<>>)

\* `formatted_content = shorten_str(content).normal();`
ShortenStr ==
    /\ pass = "fmt"
    /\ \E build \in Builds : result' = shorten_str(input, build)
    /\ pass' = "shorten_str"
    /\ UNCHANGED input

SpecShorten == InitShorten /\ [][ShortenStr]_vars

---------------------------------------------------------------------------
(* parse_document (src/src/lib.rs)                                         *)

\* `grammar::Document(&input, &source_lines)` has returned a tree.
InitPipeline == Parsed(HeadingInputs) \/ InitLists

\* `result = transformations::fold_headings_transformation(result);`
ParseDocumentFoldHeadings ==
    /\ pass = "parse"
    /\ result.ok
    /\ pass' = "fold_headings_transformation"
    /\ input' = result.val
    /\ result' = fold_headings_transformation(result.val)

\* `result = transformations::fold_lists_transformation(result);`
ParseDocumentFoldLists ==
    /\ pass = "fold_headings_transformation"
    /\ result.ok
    /\ pass' = "fold_lists_transformation"
    /\ input' = result.val
    /\ result' = fold_lists_transformation(result.val)

\* `Ok(result)` behind the second transformation; an error of a
\* transformation is what parse_document has to hand on.
ParseDocumentReturn ==
    /\ \/ pass = "fold_lists_transformation"
       \/ pass = "fold_headings_transformation" /\ ~result.ok
    /\ pass' = "parse_document"
    /\ UNCHANGED <<input, result>>

NextPipeline ==
    \/ ParseDocumentFoldHeadings
    \/ ParseDocumentFoldLists
    \/ ParseDocumentReturn

SpecPipeline == InitPipeline /\ [][NextPipeline]_vars

---------------------------------------------------------------------------
(* Properties of fold_headings                                             *)

IsHeading(e) == e.type = "Heading"

Least(S) == CHOOSE x \in S : \A y \in S : x <= y

\* The indices of l, in ascending order, that satisfy Keep.
IndicesWhere(l, Keep(_)) ==
    LET RECURSIVE from(_)
        from(i) == IF i > Len(l) THEN <<>>
                   ELSE IF Keep(i) THEN <<i>> \o from(i + 1)
                   ELSE from(i + 1)
    IN  from(1)

\* A document whose children are headings that hold no heading yet, neither
\* in their content nor in their caption.
FlatHeadingRun(doc) ==
    /\ doc.type = "Document"
    /\ \A i \in 1..Len(doc.content) :
          /\ IsHeading(doc.content[i])
          /\ \A j \in 1..Len(doc.content[i].content) :
                ~IsHeading(doc.content[i].content[j])
          /\ \A j \in 1..Len(doc.content[i].caption) :
                ~IsHeading(doc.content[i].caption[j])

\* The nearest heading before the i-th of hs that is of strictly smaller
\* depth, 0 if there is none.
ParentHeading(hs, i) ==
    LET smaller == {j \in 1..(i - 1) : hs[j].depth < hs[i].depth}
    IN  IF smaller = {} THEN 0 ELSE CHOOSE j \in smaller : \A k \in smaller : k <= j

RECURSIVE NestedHeading(_, _)
\* The i-th heading of hs with the headings it is the parent of, in document
\* order, behind its own content.
NestedHeading(hs, i) ==
    LET children == IndicesWhere(hs, LAMBDA k : ParentHeading(hs, k) = i)
    IN  [hs[i] EXCEPT !.content =
            @ \o [k \in 1..Len(children) |-> NestedHeading(hs, children[k])]]

\* The document with every heading under its parent heading.
NestedDocument(doc) ==
    LET hs == doc.content
        top == IndicesWhere(hs, LAMBDA k : ParentHeading(hs, k) = 0)
    IN  [doc EXCEPT !.content =
            [k \in 1..Len(top) |-> NestedHeading(hs, top[k])]]

\* C1: fold_headings on a document that is a flat run of headings puts every
\* heading, in document order, into the content of the nearest preceding
\* heading of strictly smaller depth, or leaves it at top level if there is
\* none; no heading is lost or duplicated.
C1_FoldHeadingsNests ==
    (pass = "fold_headings_transformation" /\ FlatHeadingRun(input))
        => result = Ok(NestedDocument(input))

\* The depths of the headings in a content list.
HeadingDepths(l) ==
    LET hs == SelectSeq(l, IsHeading) IN [k \in 1..Len(hs) |-> hs[k].depth]

\* The run 1,2,2,1,3 has been folded into two top-level headings.
C1_Witness ==
    /\ pass = "fold_headings_transformation"
    /\ input = RawDocument(ExampleHeadingDepths)
    /\ result.ok
    /\ HeadingDepths(result.val.content) = <<1, 1>>
    /\ HeadingDepths(result.val.content[1].content) = <<2, 2>>
    /\ HeadingDepths(result.val.content[2].content) = <<3>>

\* The places of l that hold a non-heading behind a heading of l.
Offenders(l) ==
    {i \in 1..Len(l) : ~IsHeading(l[i]) /\ \E j \in 1..(i - 1) : IsHeading(l[j])}

\* An element that holds no heading and no list of elements fold_headings
\* could change: a text, or a paragraph of texts.
Plain(e) ==
    \/ e.type = "Text"
    \/ /\ e.type = "Paragraph"
       /\ \A j \in 1..Len(e.content) : e.content[j].type = "Text"

\* The call returned the error of fold_headings for the element c, and no tree.
FoldHeadingsError(c) ==
    /\ ~result.ok
    /\ "val" \notin DOMAIN result
    /\ result.err.transformation_name = "fold_headings_transformation"
    /\ result.err.position = c.position
    /\ result.err.tree = c

\* The plain elements in front of the first heading of lin are, unchanged and
\* at their places, in lout.
KeptLeading(lin, lout) ==
    \A i \in 1..Len(lin) :
        ((\A j \in 1..i : ~IsHeading(lin[j])) /\ Plain(lin[i]))
            => (i <= Len(lout) /\ lout[i] = lin[i])

\* The document has one child, a container around a child list of its own.
OneContainer(doc) == Len(doc.content) = 1 /\ ~Plain(doc.content[1])

\* C3: a non-heading behind a heading of the same child list makes
\* fold_headings return a TransformationError that names
\* fold_headings_transformation and carries the span and a copy of that element
\* (the first such element of the list processed first), and no tree; a
\* non-heading in front of every heading of its list is kept without an error.
C3_NonHeadingAfterHeading ==
    (pass = "fold_headings_transformation" /\ input.type = "Document") =>
        LET l == input.content
            wl == WrappedList(l[1])
            inner == OneContainer(input) /\ Offenders(wl) # {}
        IN  /\ Offenders(l) # {} => FoldHeadingsError(l[Least(Offenders(l))])
            /\ (Offenders(l) = {} /\ inner)
                  => FoldHeadingsError(wl[Least(Offenders(wl))])
            /\ (Offenders(l) = {} /\ ~inner) =>
                  /\ result.ok
                  /\ KeptLeading(l, result.val.content)
                  /\ OneContainer(input)
                        => KeptLeading(wl, WrappedList(result.val.content[1]))

\* A document that starts with a paragraph, which is no error, was refused
\* for the paragraph behind its heading.
C3_Witness ==
    /\ pass = "fold_headings_transformation"
    /\ input.type = "Document"
    /\ Len(input.content) = 3
    /\ ~IsHeading(input.content[1])
    /\ IsHeading(input.content[2])
    /\ ~IsHeading(input.content[3])
    /\ ~result.ok
    /\ result.err.position = input.content[3].position
    /\ result.err.position # input.content[1].position

---------------------------------------------------------------------------
(* The nodes of a tree                                                     *)

\* All child lists of an element, by the fields of its variant in ast.rs.
AllChildLists(e) ==
    CASE e.type \in {"Document", "Formatted", "Paragraph", "ListItem", "List",
                     "TableCell", "HtmlTag", "Gallery"} -> <<e.content>>
      [] e.type = "Heading" -> <<e.caption, e.content>>
      [] e.type = "Template" -> <<e.name, e.content>>
      [] e.type = "TemplateArgument" -> <<e.value>>
      [] e.type = "InternalReference" -> <<e.target>> \o e.options \o <<e.caption>>
      [] e.type = "ExternalReference" -> <<e.caption>>
      [] e.type = "Table" -> <<e.caption, e.rows>>
      [] e.type = "TableRow" -> <<e.cells>>
      [] OTHER -> <<>>

\* The children of an element.
ChildSet(e) ==
    LET ls == AllChildLists(e)
    IN  UNION {{ls[k][i] : i \in 1..Len(ls[k])} : k \in DOMAIN ls}

RECURSIVE Nodes(_)
\* The element and all its descendants.
Nodes(e) == {e} \cup UNION {Nodes(c) : c \in ChildSet(e)}

---------------------------------------------------------------------------
(* Properties of fold_lists                                                *)

IsListItem(e) == e.type = "ListItem"

AllListItems(l) == \A i \in 1..Len(l) : IsListItem(l[i])

RECURSIVE FoldedItems(_)
\* The nesting of a run of list items: the items of least depth stay, each
\* run of deeper items goes, nested the same way, into one new list at the
\* end of the content of the item in front of it; a run of deeper items in
\* front of the first item of least depth gets an item of its own.
FoldedItems(items) ==
    IF items = <<>> THEN <<>>
    ELSE
      LET least == Least({items[i].depth : i \in 1..Len(items)})
          heads == IndicesWhere(items, LAMBDA i : items[i].depth = least)
          RunBehind(k) ==
              SubSeq(items, heads[k] + 1,
                     IF k < Len(heads) THEN heads[k + 1] - 1 ELSE Len(items))
          Sublist(deeper) == List(deeper[1].position, FoldedItems(deeper))
          Holding(item, deeper) ==
              IF deeper = <<>> THEN item
              ELSE [item EXCEPT !.content = Append(@, Sublist(deeper))]
          lead == SubSeq(items, 1, heads[1] - 1)
      IN  (IF lead = <<>> THEN <<>>
           ELSE <<ListItem(lead[1].position, least, lead[1].kind,
                           <<Sublist(lead)>>)>>)
          \o [k \in 1..Len(heads) |-> Holding(items[heads[k]], RunBehind(k))]

\* No item of the list is in front of the first item of least depth.
StartsAtLeastDepth(items) ==
    items = <<>> \/ \A i \in 1..Len(items) : items[1].depth <= items[i].depth

\* C2: fold_lists on a list of list items keeps the items of least depth in
\* their order and moves every maximal run of deeper items, in order, into
\* one new list appended to the content of the item of least depth in front
\* of the run.
C2_FoldListsNests ==
    (/\ pass = "fold_lists_transformation"
     /\ input.type = "List"
     /\ AllListItems(input.content)
     /\ StartsAtLeastDepth(input.content))
        => result = Ok([input EXCEPT !.content = FoldedItems(@)])

\* The list of depths 1,2,2,1 has become two items, the first with one new
\* list of the two deeper items behind its own content, the second untouched.
C2_Witness ==
    /\ pass = "fold_lists_transformation"
    /\ input = RawList(ExampleItemDepths)
    /\ result.ok
    /\ Len(result.val.content) = 2
    /\ result.val.content[1] =
          [input.content[1] EXCEPT !.content =
              Append(@, List(input.content[2].position,
                             <<input.content[2], input.content[3]>>))]
    /\ result.val.content[2] = input.content[4]

\* The tree holds a list item that is the child of a node that is no list.
StrayListItem(tree) ==
    \E n \in Nodes(tree) : n.type # "List" /\ \E c \in ChildSet(n) : IsListItem(c)

\* The tree holds a list with a child that is no list item.
BadList(tree) ==
    \E n \in Nodes(tree) : n.type = "List" /\ \E c \in ChildSet(n) : ~IsListItem(c)

\* C4 as claimed: fold_lists returns a TransformationError that names
\* fold_lists_transformation whenever a list item is the child of a node other
\* than a list.
C4_StrayListItemIsAnError ==
    (pass = "fold_lists_transformation" /\ StrayListItem(input))
        => (~result.ok
            /\ result.err.transformation_name = "fold_lists_transformation")

\* C4 as amended: fold_lists returns a TransformationError, which names
\* fold_lists_transformation, exactly when it comes to a list that has a child
\* that is no list item; a list item that is the child of a node other than a
\* list is no error and stays where it is.
C4_ErrorOnlyForBadList ==
    pass = "fold_lists_transformation" =>
        /\ result.ok <=> ~BadList(input)
        /\ ~result.ok
              => result.err.transformation_name = "fold_lists_transformation"
        /\ (result.ok /\ input.type # "List") =>
              \A i \in 1..Len(input.content) :
                  IsListItem(input.content[i])
                      => (/\ i <= Len(result.val.content)
                          /\ result.val.content[i] = input.content[i])

\* A document whose children are list items, of two depths, came back as it
\* was.
C4_Witness ==
    /\ pass = "fold_lists_transformation"
    /\ input.type = "Document"
    /\ Len(input.content) >= 2
    /\ AllListItems(input.content)
    /\ input.content[1].depth < input.content[2].depth
    /\ result = Ok(input)

\* The list fold_lists comes to first: the tree, or the only child of a
\* document.
FirstList(tree) == IF tree.type = "List" THEN tree ELSE tree.content[1]

\* C5: a list with a child that is no list item makes fold_lists return the
\* TransformationError "A list should not contain non-listitems." of
\* fold_lists_transformation with the span and a copy of the first such child,
\* and the handler returns it with every item still in the list.
C5_NonListItemInList ==
    (/\ pass = "fold_lists_transformation"
     /\ \/ input.type = "List"
        \/ input.type = "Document" /\ Len(input.content) = 1
                                   /\ input.content[1].type = "List"
     /\ ~AllListItems(FirstList(input).content))
        => LET l == FirstList(input).content
               c == l[Least({i \in 1..Len(l) : ~IsListItem(l[i])})]
           IN  /\ result = Err(TransformationError(
                                   "A list should not contain non-listitems.",
                                   c.position, "fold_lists_transformation", c))
               /\ move_deeper_items("fold_lists_transformation", l).root_content = l

\* A list with a deeper item in front of a text was refused for the text.
C5_Witness ==
    /\ pass = "fold_lists_transformation"
    /\ input.type = "List"
    /\ Len(input.content) = 3
    /\ IsListItem(input.content[1])
    /\ IsListItem(input.content[2])
    /\ input.content[2].depth > input.content[1].depth
    /\ ~IsListItem(input.content[3])
    /\ ~result.ok
    /\ result.err.tree = input.content[3]

---------------------------------------------------------------------------
(* Properties of collapse_paragraphs                                       *)

Greatest(S) == CHOOSE x \in S : \A y \in S : y <= x

\* The child list a document holds for a family of inputs: the content of its
\* only child if that is a container of the given type, its own content
\* otherwise.
InContainer(doc, container) ==
    Len(doc.content) = 1 /\ doc.content[1].type = container

InnerList(doc, container) ==
    IF InContainer(doc, container) THEN doc.content[1].content ELSE doc.content

\* The document with l in the place of that child list.
WithInnerList(doc, container, l) ==
    IF InContainer(doc, container)
    THEN [doc EXCEPT !.content[1].content = l]
    ELSE [doc EXCEPT !.content = l]

IsParagraph(e) == e.type = "Paragraph"

IsEmptyParagraph(e) == IsParagraph(e) /\ e.content = <<>>

IsFullParagraph(e) == IsParagraph(e) /\ e.content # <<>>

\* Every entry of l is a paragraph that holds no paragraph, or a leaf.
FlatBlocks(l) ==
    \A i \in 1..Len(l) :
        /\ l[i].type \in {"Paragraph", "Text", "Comment"}
        /\ IsParagraph(l[i]) =>
              \A j \in 1..Len(l[i].content) : ~IsParagraph(l[i].content[j])

\* The i-th entry of l is a non-empty paragraph right behind a non-empty
\* paragraph: it goes into the entry kept before it.
Joins(l, i) == i > 1 /\ IsFullParagraph(l[i]) /\ IsFullParagraph(l[i - 1])

\* The last entry of l that goes into the entry kept for the h-th.
LastJoined(l, h) ==
    Greatest({e \in h..Len(l) : \A j \in (h + 1)..e : Joins(l, j)})

RECURSIVE JoinedContent(_, _, _)
\* The contents of the entries h..e of l with one text of a single space
\* between each two; the text carries the span the merged paragraph had when
\* it was added.
JoinedContent(l, h, e) ==
    IF e = h THEN l[h].content
    ELSE JoinedContent(l, h, e - 1)
            \o <<Text(Span(l[h].position.start, l[e - 1].position.end), <<" ">>)>>
            \o l[e].content

\* The list of blocks as collapse_paragraphs is to leave it.
CollapsedBlocks(l) ==
    LET kept == IndicesWhere(l, LAMBDA i : ~IsEmptyParagraph(l[i]) /\ ~Joins(l, i))
        Merged(h) ==
            IF IsParagraph(l[h])
            THEN Paragraph(Span(l[h].position.start,
                                l[LastJoined(l, h)].position.end),
                           JoinedContent(l, h, LastJoined(l, h)))
            ELSE l[h]
    IN  [k \in 1..Len(kept) |-> Merged(kept[k])]

\* C6: within one child list collapse_paragraphs removes every paragraph with
\* empty content and merges a non-empty paragraph into the entry kept before
\* it exactly when that entry is a paragraph and no empty paragraph stood
\* between the two; the merged content is the earlier content, one text of a
\* single space, the later content, the span start is unchanged and the span
\* end is that of the later paragraph; every other entry stays an entry of its
\* own.
C6_CollapseParagraphsMerges ==
    (/\ pass = "collapse_paragraphs"
     /\ input.type = "Document"
     /\ FlatBlocks(InnerList(input, "Formatted")))
        => result = Ok(WithInnerList(input, "Formatted",
                          CollapsedBlocks(InnerList(input, "Formatted"))))

\* Of two words, an empty paragraph and a third word, the first two were
\* merged around a space and the third was kept apart.
C6_Witness ==
    /\ pass = "collapse_paragraphs"
    /\ input = Document(Between(0, 50), RawBlocks(<<"word", "word", "empty", "word">>))
    /\ result.ok
    /\ Len(result.val.content) = 2
    /\ result.val.content[1].position = Span(At(10), At(29))
    /\ result.val.content[1].content =
          <<input.content[1].content[1],
            Text(input.content[1].position, <<" ">>),
            input.content[2].content[1]>>
    /\ result.val.content[2] = input.content[4]

\* No paragraph of the tree has empty content.
NoEmptyParagraph(tree) == \A n \in Nodes(tree) : ~IsEmptyParagraph(n)

\* C7 as claimed: collapse_paragraphs applied to what collapse_paragraphs
\* returned returns the same tree again.
C7_CollapseParagraphsIdempotent ==
    [][(pass = "collapse_paragraphs" /\ pass' = "collapse_paragraphs")
          => result' = result]_vars

\* C7 as amended: collapse_paragraphs applied to what it returned for a tree
\* that holds no paragraph with empty content returns the same tree again.
C7_IdempotentWithoutEmptyParagraphs ==
    [][(/\ pass = "collapse_paragraphs"
        /\ pass' = "collapse_paragraphs"
        /\ NoEmptyParagraph(input))
          => result' = result]_vars

\* A paragraph merged of two by the first application came back as it was
\* from the second.
C7_Witness ==
    /\ pass = "collapse_paragraphs"
    /\ NoEmptyParagraph(input)
    /\ result = Ok(input)
    /\ \E i \in 1..Len(input.content) :
          /\ IsParagraph(input.content[i])
          /\ Len(input.content[i].content) = 3
          /\ input.content[i].content[2] =
                Text(Span(input.content[i].position.start,
                          input.content[i].content[1].position.end), <<" ">>)
          /\ input.content[i].position.end = input.content[i].content[3].position.end

---------------------------------------------------------------------------
(* Properties of collapse_consecutive_text                                 *)

IsText(e) == e.type = "Text"

\* Every entry of l is a text or a comment.
FlatInlines(l) == \A i \in 1..Len(l) : l[i].type \in {"Text", "Comment"}

\* The last entry of the run of texts that the h-th entry of l starts.
LastOfRun(l, h) ==
    Greatest({e \in h..Len(l) : \A j \in h..e : IsText(l[j])})

RECURSIVE RunText(_, _, _)
\* The text of the h-th entry as it is, then for each of the entries up to
\* the e-th one space if its text is white space and its text otherwise.
RunText(l, h, e) ==
    IF e = h THEN l[h].text
    ELSE RunText(l, h, e - 1)
            \o (IF \A c \in 1..Len(l[e].text) : l[e].text[c] \in WhitespaceChars
                THEN <<" ">>
                ELSE l[e].text)

\* The list of inline nodes as collapse_consecutive_text is to leave it.
CollapsedTexts(l) ==
    LET first == IndicesWhere(l, LAMBDA i : ~IsText(l[i]) \/ i = 1
                                              \/ ~IsText(l[i - 1]))
        Merged(h) ==
            IF IsText(l[h])
            THEN Text(Span(l[h].position.start,
                           l[LastOfRun(l, h)].position.end),
                      RunText(l, h, LastOfRun(l, h)))
            ELSE l[h]
    IN  [k \in 1..Len(first) |-> Merged(first[k])]

\* C8: within one child list collapse_consecutive_text replaces every maximal
\* run of adjacent texts by one text: the text of the first as it is, then for
\* each later one a single space if its text is white space (the empty text
\* included) and its text otherwise; the span runs from the start of the first
\* to the end of the last; the other entries keep their place.
C8_CollapseConsecutiveTextMerges ==
    (/\ pass = "collapse_consecutive_text"
     /\ input.type = "Document"
     /\ FlatInlines(InnerList(input, "Paragraph")))
        => result = Ok(WithInnerList(input, "Paragraph",
                          CollapsedTexts(InnerList(input, "Paragraph"))))

\* The texts "a", "  ", "b" of a paragraph have become the one text "a b".
C8_Witness ==
    /\ pass = "collapse_consecutive_text"
    /\ input = Document(Between(0, 40),
                        <<Paragraph(Between(0, 40), RawInlines(ExampleInlineKinds))>>)
    /\ result.ok
    /\ result.val.content[1].content =
          <<Text(Span(At(10), At(39)), <<"a", " ", "b">>)>>

---------------------------------------------------------------------------
(* Properties of enumerate_anon_args                                       *)

IsArgument(e) == e.type = "TemplateArgument"

\* An argument whose name, trimmed, is empty.
IsAnonymousArgument(e) ==
    IsArgument(e) /\ \A c \in 1..Len(e.name) : e.name[c] \in WhitespaceChars

\* The digits of the decimal representation of k >= 1, most significant
\* first.
Decimal(k) ==
    LET digits == <<"0", "1", "2", "3", "4", "5", "6", "7", "8", "9">>
        RECURSIVE of(_)
        of(n) == IF n = 0 THEN <<>> ELSE Append(of(n \div 10), digits[(n % 10) + 1])
    IN  of(k)

\* The content l of a template with the k-th anonymous argument named k.
NumberedContent(l) ==
    [i \in 1..Len(l) |->
        IF IsAnonymousArgument(l[i])
        THEN [l[i] EXCEPT !.name =
                 Decimal(Cardinality({j \in 1..i : IsAnonymousArgument(l[j])}))]
        ELSE l[i]]

RECURSIVE Numbered(_)
\* The tree with the content of the templates numbered: of the tree itself
\* if it is a template, and of the templates in the content of documents,
\* paragraphs and templates and in the values of arguments.
Numbered(e) ==
    LET Each(l) == [i \in 1..Len(l) |-> Numbered(l[i])]
    IN  CASE e.type = "Template" -> [e EXCEPT !.content = Each(NumberedContent(@))]
          [] e.type = "TemplateArgument" -> [e EXCEPT !.value = Each(@)]
          [] e.type \in {"Document", "Paragraph"} -> [e EXCEPT !.content = Each(@)]
          [] OTHER -> e

\* No template of the tree has a template in its name.
NamedByText(tree) ==
    \A n \in Nodes(tree) :
        n.type = "Template" => \A i \in 1..Len(n.name) : IsText(n.name[i])

ArgumentNames(l) ==
    LET args == SelectSeq(l, IsArgument) IN [k \in 1..Len(args) |-> args[k].name]

RECURSIVE Reached(_)
\* The nodes the recursion of a transformation comes to from the node e: e
\* and the nodes it comes to from the elements of the child lists the
\* recursion engine hands on.
Reached(e) ==
    LET slots == child_lists(e)
    IN  {e} \cup UNION {UNION {Reached(list_at(e, slots[k])[i]) :
                                  i \in 1..Len(list_at(e, slots[k]))} :
                          k \in 1..Len(slots)}

\* C10 as claimed: after enumerate_anon_args every TemplateArgument of the
\* tree has a non-empty name.
C10_EveryArgumentIsNamed ==
    (pass = "enumerate_anon_args" /\ result.ok)
        => \A n \in Nodes(result.val) : IsArgument(n) => n.name # <<>>

\* After enumerate_anon_args every TemplateArgument that is
\* an element of the content of a template the recursion came to has a
\* non-empty name.
C10_ArgumentsOfReachedTemplatesAreNamed ==
    (pass = "enumerate_anon_args" /\ result.ok)
        => \A n \in Reached(result.val) :
              n.type = "Template"
                  => \A i \in 1..Len(n.content) :
                        IsArgument(n.content[i]) => n.content[i].name # <<>>

\* A template with an anonymous argument whose value is a template with
\* anonymous arguments came back with a name for each of them.
C10_Witness ==
    /\ pass = "enumerate_anon_args"
    /\ input.type = "Template"
    /\ \E i \in 1..Len(input.content) :
          /\ IsArgument(input.content[i])
          /\ input.content[i].name = <<>>
          /\ input.content[i].value[1].type = "Template"
          /\ \E j \in 1..Len(input.content[i].value[1].content) :
                input.content[i].value[1].content[j].name = <<>>
          /\ result.ok
          /\ result.val.content[i].name # <<>>
          /\ \A j \in 1..Len(result.val.content[i].value[1].content) :
                result.val.content[i].value[1].content[j].name # <<>>

---------------------------------------------------------------------------
(* Properties of whitespace_paragraphs_to_empty                            *)

\* A paragraph whose children are all texts of white space; the text without
\* a character is of white space.
WhitespaceParagraph(e) ==
    /\ IsParagraph(e)
    /\ \A i \in 1..Len(e.content) :
          /\ IsText(e.content[i])
          /\ \A c \in 1..Len(e.content[i].text) :
                e.content[i].text[c] \in WhitespaceChars

RECURSIVE Blanked(_)
\* The tree of documents, paragraphs, formatted runs, galleries and leaves
\* with the content of every paragraph of white space taken out and nothing
\* else changed.
Blanked(e) ==
    IF WhitespaceParagraph(e) THEN [e EXCEPT !.content = <<>>]
    ELSE IF e.type \in {"Document", "Paragraph", "Formatted", "Gallery"}
    THEN [e EXCEPT !.content = [i \in 1..Len(@) |-> Blanked(@[i])]]
    ELSE e

\* The tree is built of documents, paragraphs, formatted runs, galleries,
\* texts and comments only.
PlainTree(tree) ==
    \A n \in Nodes(tree) :
        n.type \in {"Document", "Paragraph", "Formatted", "Gallery", "Text",
                    "Comment"}

\* C11: whitespace_paragraphs_to_empty empties the content of exactly the
\* paragraphs, at any depth, whose content consists only of texts of white
\* space, the empty text included; every other paragraph keeps its child list
\* and no other node is added, removed or reordered.
C11_WhitespaceParagraphsEmptied ==
    (pass = "whitespace_paragraphs_to_empty" /\ PlainTree(input))
        => result = Ok(Blanked(input))

\* Of a paragraph that holds a paragraph of the texts "  " and "", a
\* formatted run around a paragraph of a line break and a text of white
\* space, the two inner paragraphs were emptied and the outer was kept.
C11_Witness ==
    /\ pass = "whitespace_paragraphs_to_empty"
    /\ input = Document(Between(0, 50), <<DeepParagraph(<<"spaces", "none">>)>>)
    /\ result.ok
    /\ Len(result.val.content[1].content) = 3
    /\ result.val.content[1].content[1].content = <<>>
    /\ result.val.content[1].content[2].content[1].content = <<>>
    /\ result.val.content[1].content[3] = input.content[1].content[3]

---------------------------------------------------------------------------
(* Properties of the pipeline                                              *)

\* The passes in the order of the pipeline.
PipelineOrder ==
    <<"fold_headings_transformation", "fold_lists_transformation",
      "whitespace_paragraphs_to_empty", "collapse_paragraphs",
      "collapse_consecutive_text", "enumerate_anon_args">>

\* The pipeline returns what the pass called last returned.
PipelineReturns ==
    pass' = "parse_document" /\ result' = result

\* C12: the pipeline applies the six passes in the order fold_headings,
\* fold_lists, whitespace_paragraphs_to_empty, collapse_paragraphs,
\* collapse_consecutive_text, enumerate_anon_args, each to the tree the pass
\* before it returned; when a pass returns an error the pipeline returns
\* that error, runs no later pass and returns no tree.
C12_PipelineRunsSixPasses ==
    [][/\ pass = "parse"
          => (pass' = PipelineOrder[1] /\ input' = result.val)
       /\ \A k \in 1..Len(PipelineOrder) :
            (pass = PipelineOrder[k] /\ result.ok)
                => IF k < Len(PipelineOrder)
                   THEN pass' = PipelineOrder[k + 1] /\ input' = result.val
                   ELSE PipelineReturns
       /\ ~result.ok
          => (PipelineReturns /\ "val" \notin DOMAIN result')]_vars

---------------------------------------------------------------------------
(* The shape of folded headings                                            *)

\* No heading of the tree holds a heading in its content: the headings are
\* siblings as the parser delivers them.
HeadingsAreSiblings(tree) ==
    \A n \in Nodes(tree) :
        IsHeading(n) => \A i \in 1..Len(n.content) : ~IsHeading(n.content[i])

\* The content of the heading is a run of non-headings followed by a run
\* of headings, each deeper than the heading itself.
HeadingContentInOrder(h) ==
    /\ \A i, j \in 1..Len(h.content) :
          (i < j /\ IsHeading(h.content[i])) => IsHeading(h.content[j])
    /\ \A i \in 1..Len(h.content) :
          IsHeading(h.content[i]) => h.content[i].depth > h.depth

\* C13: after fold_headings has succeeded on a tree whose headings were
\* siblings, the content of every heading is zero or more non-headings
\* followed by zero or more headings, each of depth strictly greater than that
\* of the heading that holds it; the headings in the content are among the
\* headings of the tree, so it holds for them in turn.
C13_FoldedHeadingsWellFormed ==
    (/\ pass = "fold_headings_transformation"
     /\ result.ok
     /\ HeadingsAreSiblings(input))
        => \A n \in Nodes(result.val) : IsHeading(n) => HeadingContentInOrder(n)

\* A heading with a paragraph of its own has got a deeper heading behind
\* the paragraph, and that heading a still deeper one.
C13_Witness ==
    /\ pass = "fold_headings_transformation"
    /\ HeadingsAreSiblings(input)
    /\ result.ok
    /\ \E n \in Nodes(result.val) :
          /\ IsHeading(n)
          /\ Len(n.content) = 2
          /\ ~IsHeading(n.content[1])
          /\ IsHeading(n.content[2])
          /\ \E i \in 1..Len(n.content[2].content) :
                IsHeading(n.content[2].content[i])

---------------------------------------------------------------------------
(* Properties of Position::new                                             *)

\* The byte offset of the k-th character of the text; of the end of the text
\* for k = Len(source) + 1.
ByteOffset(source, k) == str_len(SubSeq(source, 1, k - 1))

\* The number of characters of the text that start in the bytes from..to-1.
CharsBetween(source, from, to) ==
    Cardinality({k \in 1..Len(source) :
                    from <= ByteOffset(source, k) /\ ByteOffset(source, k) < to})

\* The offset is where a character of the text starts, or the end of the text.
OnCharacter(source, offset) ==
    \E k \in 1..(Len(source) + 1) : ByteOffset(source, k) = offset

\* C14: for the line index built from a text, with the end of a line the
\* start of the next, Position::new maps an offset inside line i (zero-based,
\* start <= offset < end) to line i + 1 and to column 1 plus the number of
\* characters between the start of the line and the offset, and an offset
\* beyond the last line to the line number of lines + 1 and column 0.  The
\* offsets inside a line are those at which a character or the end of the
\* text stands.
C14_PositionOfOffset ==
    pass = "Position::new" =>
        LET slocs == input.slocs
            offset == input.offset
        IN  /\ \A i \in 1..(Len(slocs) - 1) : slocs[i].end = slocs[i + 1].start
            /\ \A i \in 0..(Len(slocs) - 1) :
                  (/\ slocs[i + 1].start <= offset
                   /\ offset < slocs[i + 1].end
                   /\ OnCharacter(input.source, offset))
                      => result = Position(offset, i + 1,
                                           1 + CharsBetween(input.source,
                                                            slocs[i + 1].start,
                                                            offset))
            /\ offset >= slocs[Len(slocs)].end
                  => result = Position(offset, Len(slocs) + 1, 0)

\* In the text "ab\ncd" the offset 4 is at line 2, column 2.
C14_Witness ==
    /\ pass = "Position::new"
    /\ input.source = ExampleSource
    /\ input.offset = 4
    /\ result = Position(4, 2, 2)

\* C15: Position::new never fails: for every text and every byte offset,
\* also one in the middle of a character of several bytes and one at or
\* behind the end of the text, it returns a Position that carries the offset.
C15_PositionNewNeverFails ==
    pass = "Position::new" =>
        /\ DOMAIN result = {"offset", "line", "col"}
        /\ result.offset = input.offset

---------------------------------------------------------------------------
(* Properties of the equality of positions and spans                       *)

AllZero(p) == p.offset = 0 /\ p.line = 0 /\ p.col = 0

PairwiseEqual(p, q) == p.offset = q.offset /\ p.line = q.line /\ p.col = q.col

EqualPositions(p, q) == AllZero(p) \/ AllZero(q) \/ PairwiseEqual(p, q)

\* C16: two Positions compare equal if and only if at least one of them has
\* offset, line and col all zero or their three fields are pairwise equal;
\* two Spans compare equal if and only if this holds of their starts and of
\* their ends, each endpoint on its own.
C16_EqualityWithWildcards ==
    /\ pass = "Position::eq" =>
          (result <=> EqualPositions(input.self, input.other))
    /\ pass = "Span::eq" =>
          (result <=> /\ EqualPositions(input.self.start, input.other.start)
                      /\ EqualPositions(input.self.end, input.other.end))

\* Two spans compare equal whose starts differ, the left one being the
\* wildcard, and whose ends are the same position, not the wildcard.
C16_Witness ==
    /\ pass = "Span::eq"
    /\ result = TRUE
    /\ AllZero(input.self.start)
    /\ ~AllZero(input.other.start)
    /\ ~AllZero(input.self.end)
    /\ input.self.end = input.other.end

---------------------------------------------------------------------------
(* Properties of the recursion engine                                      *)

\* The child lists of an element in the order of the fields of its variant in
\* ast.rs, each named like a list handed to the handler.
DeclaredLists(e) ==
    CASE e.type \in {"Document", "Formatted", "Paragraph", "ListItem", "List",
                     "TableCell", "HtmlTag", "Gallery"} -> << <<"content">> >>
      [] e.type = "Heading" -> << <<"caption">>, <<"content">> >>
      [] e.type = "Template" -> << <<"name">>, <<"content">> >>
      [] e.type = "TemplateArgument" -> << <<"value">> >>
      [] e.type = "InternalReference" ->
            << <<"target">> >> \o [k \in 1..Len(e.options) |-> <<"options", k>>]
                \o << <<"caption">> >>
      [] e.type = "ExternalReference" -> << <<"caption">> >>
      [] e.type = "Table" -> << <<"caption">>, <<"rows">> >>
      [] e.type = "TableRow" -> << <<"cells">> >>
      [] OTHER -> <<>>

\* The engine has returned Ok.
EngineReturnedOk ==
    pass = "return" /\ result.returned # <<>> /\ result.returned[1].ok

\* How often a list was handed to the handler.
TimesHanded(slot) ==
    Cardinality({k \in 1..Len(result.handed) : result.handed[k] = slot})

\* The list the default handler returned for the k-th list it was handed has
\* the transformation of each element of that list at the element's index.
TransformedInPlace(k) ==
    LET content == list_at(input.root, result.handed[k])
        new == result.lists[k]
    IN  /\ Len(new) = Len(content)
        /\ \A i \in 1..Len(content) :
              new[i] = func_apply(input.func, content[i]).val

\* C17: one call of the engine on a node, in either family, hands every child
\* list of the node (the name of a Template, every option list of an
\* InternalReference, the content of a Gallery) to the content handler exactly
\* once, and the default handler returns for a list the list of the
\* transformations of its elements, each at its index.
C17_EveryChildListHandedOnce ==
    EngineReturnedOk =>
        /\ \A k \in 1..Len(DeclaredLists(input.root)) :
              TimesHanded(DeclaredLists(input.root)[k]) = 1
        /\ \A k \in 1..Len(result.handed) : TransformedInPlace(k)

\* The place of a list among the declared lists of the node.
DeclaredIndex(slot) ==
    CHOOSE k \in 1..Len(DeclaredLists(input.root)) :
        DeclaredLists(input.root)[k] = slot

\* C18: in either family the child lists of a node are handed to the handler
\* in the order of their declaration: caption before content for a Heading,
\* name before content for a Template, target, the option lists in their
\* order, caption for an InternalReference.
C18_ListsInDeclarationOrder ==
    pass \in {"recurse_inplace_template", "recurse_clone_template",
              "apply_func_drain", "apply_func_clone", "return"} =>
        \A a, b \in 1..Len(result.handed) :
            a < b => DeclaredIndex(result.handed[a]) < DeclaredIndex(result.handed[b])

\* The call number j of the transformation function returned an error.
CallFailed(j) == ~func_apply(input.func, result.calls[j].child).ok

\* C19: when the transformation function returns an error for an element of
\* a child list, this call is the last call of the function (no later sibling
\* and no element of a later child list is handed to it), and the engine
\* returns that error.
C19_FirstErrorEndsTheEngine ==
    \A j \in 1..Len(result.calls) :
        CallFailed(j) =>
            /\ j = Len(result.calls)
            /\ pass = "return" =>
                  result.returned =
                      <<Err(func_apply(input.func, result.calls[j].child).err)>>

\* The function has refused the first of the two elements of the caption of
\* a heading, in either family the first list handed on; the engine has
\* returned the error after this one call, the heading's content and the
\* second element of the caption not having been handed to the function.
C19_Witness ==
    /\ pass = "return"
    /\ input.root.type = "Heading"
    /\ Len(input.root.caption) = 2
    /\ Len(input.root.content) = 2
    /\ input.family = "clone"
    /\ Len(result.calls) = 1
    /\ result.calls[1].child = input.root.caption[1]
    /\ result.returned = <<Err(TransformationError("refused",
                                   input.root.caption[1].position, "func",
                                   input.root.caption[1]))>>

\* The children of a node: the elements of its declared child lists.
Children(e) ==
    UNION {{list_at(e, DeclaredLists(e)[k])[i] :
                i \in 1..Len(list_at(e, DeclaredLists(e)[k]))} :
           k \in 1..Len(DeclaredLists(e))}

\* The fields of a node that hold no child list.
ScalarFields(e) ==
    {f \in DOMAIN e \ {"type"} :
        \A k \in 1..Len(DeclaredLists(e)) : DeclaredLists(e)[k][1] # f}

\* C20: recurse_clone called on a node n with the ancestor path p applies
\* the transformation function to every child of n, each time with the path
\* p followed by n, and to nothing else; it leaves its arguments as they
\* were, its own path ending as p again; the tree it returns has the variant
\* and the scalar fields of n.
C20_RecurseCloneAppliesFuncToEveryChild ==
    (EngineReturnedOk /\ input.family = "clone") =>
        /\ {result.calls[j].child : j \in 1..Len(result.calls)}
              = Children(input.root)
        /\ \A j \in 1..Len(result.calls) :
              result.calls[j].path = Append(input.path, input.root)
        /\ result.path = input.path
        /\ result.returned[1].val.type = input.root.type
        /\ \A f \in ScalarFields(input.root) :
              result.returned[1].val[f] = input.root[f]

---------------------------------------------------------------------------
(* Properties of the traversal                                             *)

\* C21: every push of run is matched by a pop: after run(root) has returned
\* Ok, the path of the traversion is the path before the call, whatever the
\* hooks work and work_vec returned.
C21_PathRestoredAfterRun ==
    pass = "run" => result.path = input.path

\* The parts of the document the traversion runs on.
TraversedNode == input.root.content[1]

\* The hooks let the elements of the document be handled.
TopOpen ==
    input.root \notin input.stop_nodes /\ input.root.content \notin input.stop_lists

\* The hooks let the child lists of the node be handed to work_vec.
NodeOpen == TopOpen /\ TraversedNode \notin input.stop_nodes

\* The child lists of the node, in the order of their declaration.
ListsOfNode ==
    [k \in 1..Len(DeclaredLists(TraversedNode)) |->
        list_at(TraversedNode, DeclaredLists(TraversedNode)[k])]

\* The elements of a list.
Elements(l) == {l[i] : i \in 1..Len(l)}

\* The nodes work has to be called for, and the lists work_vec has to be
\* called for: those with no node and no list above them for which a hook
\* returned false.
NodesToVisit ==
    {input.root}
        \cup (IF TopOpen THEN Elements(input.root.content) ELSE {})
        \cup (IF NodeOpen
              THEN UNION {Elements(ListsOfNode[k]) :
                             k \in {j \in 1..Len(ListsOfNode) :
                                       ListsOfNode[j] \notin input.stop_lists}}
              ELSE {})

NumberOfListsToVisit ==
    (IF input.root \notin input.stop_nodes THEN 1 ELSE 0)
        + (IF NodeOpen THEN Len(ListsOfNode) ELSE 0)

CallsOf(hook) == SelectSeq(result.calls, LAMBDA c : c.hook = hook)

\* C22: when work returns false for a node, no hook is called for a
\* descendant of it, and when work_vec returns false for a list, nothing
\* below the list is visited, while the later siblings, the other child
\* lists of the parent and the rest of the tree are visited: work is called
\* exactly once for every node that has no such node and no such list above
\* it, and for no other; work_vec is called once for every child list of a
\* node whose work returned true; a parent is handled before its children.
\* With the default hooks these are all nodes of the tree.
C22_HooksPruneOnlyBelow ==
    pass = "run" =>
        /\ Elements([k \in 1..Len(CallsOf("work")) |-> CallsOf("work")[k].root])
              = NodesToVisit
        /\ Len(CallsOf("work")) = Cardinality(NodesToVisit)
        /\ Len(CallsOf("work_vec")) = NumberOfListsToVisit
        /\ \A k \in 1..Len(CallsOf("work_vec")) :
              CallsOf("work_vec")[k].root
                  \in {input.root.content} \cup Elements(ListsOfNode)
        /\ \A a, b \in 1..Len(result.calls) :
              (/\ result.calls[a].hook = "work"
               /\ result.calls[b].hook = "work"
               /\ result.calls[b].root \in ChildSet(result.calls[a].root))
                  => a < b
        /\ (input.stop_nodes = {} /\ input.stop_lists = {})
              => NodesToVisit = Nodes(input.root)

\* work returned false for a heading that has a caption and a content: work
\* was called for the document, the heading and its later sibling, work_vec
\* for the content of the document only.
C22_Witness ==
    /\ pass = "run"
    /\ TraversedNode.type = "Heading"
    /\ Len(TraversedNode.caption) = 1
    /\ Len(TraversedNode.content) = 2
    /\ input.stop_nodes = {TraversedNode}
    /\ input.stop_lists = {}
    /\ [k \in 1..Len(result.calls) |-> result.calls[k].root]
          = <<input.root, input.root.content, TraversedNode, LaterSibling>>

\* The child lists of the node that run handed to run_vec, in the order of
\* the calls.
ListsHandedToRunVec ==
    LET below == SelectSeq(result.calls,
                           LAMBDA c : /\ c.hook = "work_vec"
                                      /\ c.path # <<>>
                                      /\ c.path[Len(c.path)] = TraversedNode)
    IN  [k \in 1..Len(below) |-> below[k].root]

\* C23: run visits the variants the recursion engine visits and hands the
\* child lists of a node to run_vec in the order of their declaration:
\* caption before content for a Heading, name before content for a Template,
\* target, the option lists, caption for an InternalReference, caption before
\* rows for a Table.
C23_RunVecInDeclarationOrder ==
    (pass = "run" /\ input.stop_nodes = {} /\ input.stop_lists = {}) =>
        /\ ListsHandedToRunVec = ListsOfNode
        /\ (run_lists(TraversedNode) = <<>>) <=> (child_lists(TraversedNode) = <<>>)

---------------------------------------------------------------------------
(* Properties of ParseError::from                                          *)

Min(a, b) == IF a <= b THEN a ELSE b
Max(a, b) == IF a >= b THEN a ELSE b

\* The lines of a text: the pieces between its line separators.
LinesOf(source) == split(source)

\* C24: for a grammar error on the 1-based line L of a text of n lines (L
\* taken as n when L > n), ParseError::from sets context_start to
\* max(0, L-1-5), context_end to min(n-1, L-1+5) and context to the source
\* lines context_start..context_end (zero-based, inclusive) in order, at most
\* 11 lines with the failing line among them; expected holds the expected
\* tokens of the grammar in their order, duplicates included.
C24_ParseErrorContext ==
    pass = "ParseError::from" =>
        LET lines == LinesOf(input.input)
            n == Len(lines)
            L == Min(input.err.line, n)
        IN  /\ result.context_start = Max(0, L - 1 - 5)
            /\ result.context_end = Min(n - 1, L - 1 + 5)
            /\ result.context =
                  [k \in 1..(result.context_end - result.context_start + 1) |->
                      lines[result.context_start + k]]
            /\ Len(result.context) <= 11
            /\ result.context_start <= L - 1
            /\ L - 1 <= result.context_end
            /\ result.expected = input.err.expected

\* An error on line 7 of 12 lines with the expected tokens "[", "[": the
\* context is the 11 lines 2..12, in zero-based indices 1..11.
C24_Witness ==
    /\ pass = "ParseError::from"
    /\ Len(LinesOf(input.input)) = 12
    /\ input.err.line = 7
    /\ input.err.expected = <<"[", "[">>
    /\ result.context_start = 1
    /\ result.context_end = 11
    /\ Len(result.context) = 11
    /\ result.context[1] = <<"a">>
    /\ result.expected = <<"[", "[">>

---------------------------------------------------------------------------
(* The lists fold_headings folds                                           *)

\* The elements of lout are those of lin, each at its place and at most
\* recursed into.
SameLengthAndOrder(lin, lout) ==
    /\ Len(lout) = Len(lin)
    /\ \A i \in 1..Len(lin) :
          /\ lout[i].type = lin[i].type
          /\ lout[i].position = lin[i].position

\* C25: fold_headings folds only the content lists of Document and Heading
\* nodes: a child list of another container (the content of a Paragraph or
\* of a Formatted, the value of a TemplateArgument) and the caption of a
\* Heading keep their length and their order.
C25_OtherListsKeepLengthAndOrder ==
    (/\ pass = "fold_headings_transformation"
     /\ input.type = "Document"
     /\ OneContainer(input)
     /\ result.ok)
        => SameLengthAndOrder(WrappedList(input.content[1]),
                              WrappedList(result.val.content[1]))

---------------------------------------------------------------------------
(* The placeholder item of fold_lists                                      *)

\* The items in front of the first item of least depth.
LeadingRun(items) ==
    LET least == Least({items[i].depth : i \in 1..Len(items)})
        first == Least({i \in 1..Len(items) : items[i].depth = least})
    IN  SubSeq(items, 1, first - 1)

\* The number of items of least depth.
NumberOfLeast(items) ==
    LET least == Least({items[i].depth : i \in 1..Len(items)})
    IN  Cardinality({i \in 1..Len(items) : items[i].depth = least})

\* C26: when a list of list items starts with an item deeper than the least
\* depth of the list, fold_lists puts one new item in front: it has the least
\* depth and the position and kind of that first item, and its only content
\* is the new list, at the position of that first item, that holds the
\* leading run of deeper items.  It is the only item the pass adds: a run
\* of deeper items behind an item of least depth gets none.
C26_PlaceholderForLeadingRun ==
    (/\ pass = "fold_lists_transformation"
     /\ input.type = "List"
     /\ AllListItems(input.content)
     /\ input.content # <<>>
     /\ LeadingRun(input.content) # <<>>)
        => /\ result.ok
           /\ LET first == input.content[1]
                  out == result.val.content
              IN  /\ Len(out) = NumberOfLeast(input.content) + 1
                  /\ out[1] =
                        ListItem(first.position,
                                 Least({input.content[i].depth :
                                           i \in 1..Len(input.content)}),
                                 first.kind,
                                 <<List(first.position,
                                        FoldedItems(LeadingRun(input.content)))>>)

\* The list of depths 2,1,2 has become two items: the new one of depth 1
\* around a list of the first item, and the item of depth 1 with a list of
\* the third item, which got no item of its own.
C26_Witness ==
    /\ pass = "fold_lists_transformation"
    /\ input = RawList(<<2, 1, 2>>)
    /\ result.ok
    /\ Len(result.val.content) = 2
    /\ result.val.content[1] =
          ListItem(input.content[1].position, 1, input.content[1].kind,
                   <<List(input.content[1].position, <<input.content[1]>>)>>)
    /\ result.val.content[2] =
          [input.content[2] EXCEPT !.content =
              Append(@, List(input.content[3].position, <<input.content[3]>>))]

---------------------------------------------------------------------------
(* Properties of shorten_str                                               *)

\* The line shortened in the middle: its first and its last
\* (TERMINAL_WIDTH - 4) / 2 characters around the filler.
Elided(line) ==
    LET half == (TERMINAL_WIDTH - Len(filler)) \div 2
    IN  SubSeq(line, 1, half) \o filler
            \o SubSeq(line, Len(line) - half + 1, Len(line))

\* C27: shorten_str returns for every line, lines with characters of more
\* than one byte included, a string of at most TERMINAL_WIDTH characters:
\* the line itself if it has fewer than TERMINAL_WIDTH characters, and
\* otherwise its first 38 characters, the filler and its last 38
\* characters, so that no character of the line is there twice.
C27_ShortenStrFitsTheWidth ==
    pass = "shorten_str" =>
        /\ result.returned
        /\ Len(result.val) <= TERMINAL_WIDTH
        /\ result.val = IF Len(input) < TERMINAL_WIDTH THEN input
                        ELSE Elided(input)

---------------------------------------------------------------------------
(* The lists fold_lists leaves behind                                      *)

IsList(e) == e.type = "List"

\* All children of the list are list items of one depth.
OfOneDepth(l) ==
    /\ AllListItems(l.content)
    /\ \A i, j \in 1..Len(l.content) : l.content[i].depth = l.content[j].depth

\* The lists of the tree after the pass that the tree before the pass does
\* not have: no list of the tree before is at their position.
CreatedLists(before, after) ==
    {l \in Nodes(after) :
        /\ IsList(l)
        /\ \A n \in Nodes(before) : IsList(n) => n.position # l.position}

\* C28: after fold_lists has succeeded, the children of every list of the
\* tree are list items of one common depth, and the items of a list the pass
\* has created are deeper than the list item that holds the list.
C28_FoldedListsAreWellFormed ==
    (pass = "fold_lists_transformation" /\ result.ok)
        => /\ \A l \in Nodes(result.val) : IsList(l) => OfOneDepth(l)
           /\ \A item \in Nodes(result.val) :
                 IsListItem(item)
                     => \A l \in ChildSet(item) \cap CreatedLists(input, result.val) :
                           \A i \in 1..Len(l.content) :
                               l.content[i].depth > item.depth

---------------------------------------------------------------------------
(* The sublist fold_lists appends to                                       *)

\* C29: fold_lists never returns the error "sublist was not instantiated
\* properly.", and for a list whose children are all list items, of any
\* depths in any order, the list without children included, it succeeds.
C29_SublistIsAlwaysThere ==
    pass = "fold_lists_transformation"
        => /\ ~result.ok
              => result.err.cause # build_found_error(input).cause
           /\ (input.type = "List" /\ AllListItems(input.content))
              => result.ok

\* The list of depths 3,2,1 came back as two items: the new item around the
\* list of the first two, in it a new item around the list of the first, and
\* the third item.
C29_Witness ==
    /\ pass = "fold_lists_transformation"
    /\ input = RawList(<<3, 2, 1>>)
    /\ result.ok
    /\ Len(result.val.content) = 2
    /\ result.val.content[2] = input.content[3]
    /\ LET sublist == result.val.content[1].content[1]
       IN  /\ Len(sublist.content) = 2
           /\ sublist.content[1].content[1].content = <<input.content[1]>>
           /\ sublist.content[2] = input.content[2]

---------------------------------------------------------------------------
(* The texts collapse_consecutive_text leaves behind                       *)

\* Two texts are next to each other in the list.
HasAdjacentTexts(l) ==
    \E i \in 1..(Len(l) - 1) : IsText(l[i]) /\ IsText(l[i + 1])

\* C30: after collapse_consecutive_text has succeeded no child list of a
\* node of the tree has two texts next to each other, and
\* collapse_consecutive_text applied to the tree returns it unchanged.
C30_NoAdjacentTextsAreLeft ==
    (pass = "collapse_consecutive_text" /\ result.ok)
        => /\ \A n \in Nodes(result.val) :
                 \A k \in DOMAIN AllChildLists(n) :
                     ~HasAdjacentTexts(AllChildLists(n)[k])
           /\ collapse_consecutive_text(result.val) = result

=============================================================================
